---- MODULE Spec2Model ----
(***************************************************************************)
(* State-machine model of the CXL-SpecKV host engine:                      *)
(*   - CoherenceManager  (src/src/cxl_memory/coherence_manager.cpp)        *)
(*   - CXLMemoryManager  (src/src/cxl_memory/cxl_memory_manager.cpp)       *)
(*   - CXLMemoryAllocator facade (src/src/integration/memory_allocator.cpp)*)
(*                                                                         *)
(* Every public method m is one action m(args).  A method holds its        *)
(* component's mutex from entry to return, so taking it as one atomic step *)
(* loses no interleaving.  The operator m_call(args) is the method run on  *)
(* the current state: the state it leaves, the transport operations it     *)
(* issued (sent) and the value it returns (ok).  Addresses are scaled     *)
(* down (page = 4 bytes, cache line = 2 bytes) so that intra-page and     *)
(* intra-line offsets still exist.                                        *)
(*                                                                         *)
(* Fields that no method ever reads are left out of the state:             *)
(* last_access_time (both components), DirectoryEntry::access_count and    *)
(* pending_operation, MemoryPage::layer_id, and pending_ops_ (incremented  *)
(* and decremented inside one transport call).                             *)
(***************************************************************************)
EXTENDS Integers, Sequences, FiniteSets, TLC

VARIABLES
    \* ---- CoherenceManager ----
    driver_,        \* driver_ != nullptr (fixed at construction)
    directory_,     \* line address -> [state, tier]; DOMAIN = entries created
    stats_,         \* CoherenceManager::Statistics
    \* ---- CXLMemoryManager ----
    mm,             \* the manager's members, one record field each
    \* ---- CXLMemoryAllocator (the facade, which owns the manager mm) ----
    fa,             \* initialized_, handle_map_, stats_
    \* ---- SpeculativePrefetcher (it reads the tiers of the manager mm) ----
    pf,             \* prefetch_depth_, adaptive_depth_, accuracy_history_,
                    \* outstanding_prefetches_, stats_
    inflight,       \* thread -> the prefetch call it is in: its locals
    \* ---- the C API (speckv_c_api.cpp) with its SpeckvAllocator ----
    capi,           \* g_initialized, g_driver, g_allocator and its members
    \* ---- FPGACacheEngine's codec ----
    codec,          \* the data handed to the codec and the stages it has passed
    \* ---- LSTMPredictor ----
    lstm,           \* the weights, and the last predict_top_k call and its result
    \* ---- AddressTranslationUnit, and the TLB of FPGACacheEngine ----
    atu,            \* tlb_, stats_
    engine_tlb,     \* FPGACacheEngine::tlb_
    \* ---- threads inside the methods that touch statistics ----
    thr,            \* thread -> the method it is in and the counter accesses left
    \* ---- the kernel module, its device, and speckv_access step by step ----
    kmod,           \* the module's globals and the device's registers
    acc,            \* the speckv_access call in progress, and the last one's result
    \* ---- threads inside update_prediction_accuracy ----
    upd,            \* thread -> its position in the call and its locals
    \* ---- threads ----
    stuck,          \* mutexes held for ever by a thread that blocked on itself
    ncalls          \* calls made so far, in the runs that bound their length

cohVars == <<driver_, directory_, stats_>>
mmVars == <<mm, stuck>>
pfVars == <<pf, inflight>>
hostVars == <<capi, codec>>
tlbVars == <<atu, engine_tlb>>
dmaVars == <<kmod, acc>>
extVars == <<lstm, tlbVars, thr, dmaVars, upd>>
vars ==
    <<driver_, directory_, stats_, mm, fa, pf, inflight, capi, codec, lstm, atu, engine_tlb,
      thr, kmod, acc, upd, stuck, ncalls>>

(***************************************************************************)
(* Bounds of the model                                                     *)
(***************************************************************************)
NumLines == 2      \* cache lines the coherence operations are called on
MaxStat == 3       \* no statistics counter is driven beyond this value
MaxBatch == 2      \* longest list handed to a batch operation
L1CapPages == 2    \* l1_size_bytes_ / page_size_
L2CapPages == 1    \* l2_size_bytes_ / page_size_
L3CapPages == 2    \* l3_size_bytes_ / page_size_
MaxVirtualPages == 3   \* pages the virtual cursor may hand out in all
MaxAllocPages == 3 \* largest allocation, in pages
MaxOffset == 1     \* largest intra-page offset of an address passed in
MaxCallsMM == 5    \* length of the runs of the allocator
MaxCallsSys == 4   \* calls of the facade and the allocator in a run of the system
MaxCallsPF == 3    \* length of the runs of the prefetcher with its allocator
MaxLayer == 1      \* largest layer_id passed to prefetch
MaxDepth == 5      \* largest depth passed to prefetch and set_prefetch_depth
NumThreads == 2    \* threads that call prefetch at the same time
MaxCallsApi == 5   \* length of the runs of the C API
MaxHostPages == 2  \* pages of the largest speckv_alloc
MaxCodecLen == 3   \* length of the short sequences handed to the codec
MaxCallsPFC == 2   \* prefetch calls begun in the runs with concurrent threads

(***************************************************************************)
(* Program constants (scaled)                                              *)
(***************************************************************************)
CacheLineSize == 2
PageSize == 4
VirtualBase == 4        \* next_virtual_addr_ at construction (0x100000000)
PhysBaseL1 == 100       \* next_physical_addr_l1_ (0x8000000000)
PhysBaseL2 == 200       \* next_physical_addr_l2_ (0x10000000000)
PhysBaseL3 == 400       \* next_physical_addr_l3_ (0x20000000000)
HotThreshold == 10      \* access_count > 10
VocabSize == 4          \* vocab_size_ of the prefetcher's predictor (32000)
DefaultDepth == 4       \* prefetch_depth of the constructor
AccWindowSize == 11     \* accuracy_window_size_ (100)
RecentCount == 10       \* samples update_prediction_accuracy averages
MinDepth == 2           \* adaptive_depth_ is not decremented at or below this
MaxAdaptiveDepth == 8   \* adaptive_depth_ is not incremented at or above this
HostPageSize == 4       \* page_size of SpeckvAllocator (4096)
HandleShift == 64       \* handle << 32 in a virt_page_id
HostPhysBase == 1000    \* 0x4000000000
HostPhysShift == 16     \* handle << 20 in a phys_page_id
MaxRun == 255           \* longest run of one (value, count) pair
QuantLevels == 127      \* 127.0f of the scale factor and of the quantizer
QueueLimit == 3         \* most requests kept in outstanding_prefetches_ (16)
LayerStride == 8        \* layer_id << 16 in compute_kv_address
ReqStride == 64         \* req_id << 32 in compute_kv_address

\* addresses the coherence operations are called on: the first lines of the
\* allocator's virtual range
CohAddrs == VirtualBase .. (VirtualBase + NumLines * CacheLineSize - 1)

States == {"INVALID", "SHARED", "EXCLUSIVE", "MODIFIED"}
Tiers == {"L1", "L2", "L3"}

StatKeys == {"total_reads", "total_writes", "coherence_ops", "invalidations_sent",
             "writebacks_performed", "directory_hits", "directory_misses"}

ZeroStats == [k \in StatKeys |-> 0]

\* DirectoryEntry() default constructor
DefaultEntry == [state |-> "INVALID", tier |-> "L3"]

\* addr & ~(cache_line_size_ - 1), for a power-of-two line size
align_to_cache_line(addr) == addr - (addr % CacheLineSize)

get_entry(dir, a) == a \in DOMAIN dir

get_or_create_entry(dir, a) ==
    IF a \in DOMAIN dir THEN dir ELSE dir @@ (a :> DefaultEntry)

\* get_state / get_tier: an absent entry reads as INVALID / L3
get_state(dir, addr) ==
    LET a == align_to_cache_line(addr)
    IN IF get_entry(dir, a) THEN dir[a].state ELSE "INVALID"

get_tier(dir, addr) ==
    LET a == align_to_cache_line(addr)
    IN IF get_entry(dir, a) THEN dir[a].tier ELSE "L3"

update_statistics_mut(st, op, hit) ==
    CASE op = "READ" ->
            [st EXCEPT !.total_reads = @ + 1,
                       !.directory_hits = IF hit THEN @ + 1 ELSE @,
                       !.directory_misses = IF hit THEN @ ELSE @ + 1]
      [] op = "WRITE" ->
            [st EXCEPT !.total_writes = @ + 1,
                       !.directory_misses = IF hit THEN @ ELSE @ + 1]
      [] OTHER ->
            [st EXCEPT !.coherence_ops = @ + 1]

update_statistics(st, op, hit) ==
    CASE op = "READ" ->
            [st EXCEPT !.total_reads = @ + 1,
                       !.directory_hits = IF hit THEN @ + 1 ELSE @,
                       !.directory_misses = IF hit THEN @ ELSE @ + 1]
      [] op = "WRITE" ->
            [st EXCEPT !.total_writes = @ + 1,
                       !.directory_hits = IF hit THEN @ + 1 ELSE @,
                       !.directory_misses = IF hit THEN @ ELSE @ + 1]
      [] OTHER ->
            [st EXCEPT !.coherence_ops = @ + 1]

wait_for_fpga_completion == TRUE

\* c = [dir, st, sent] is the manager's state in the middle of a call; sent
\* logs every transport call of the method with its result.
\* Returns the state after the transport call and the call's result.
send_coherence_op_to_fpga(c, op, a) ==
    IF ~driver_
    THEN [c |-> [c EXCEPT !.sent = Append(@, [op |-> op, addr |-> a, ok |-> FALSE])],
          ok |-> FALSE]
    ELSE LET success == wait_for_fpga_completion
         IN [c |-> [c EXCEPT !.sent = Append(@, [op |-> op, addr |-> a, ok |-> success]),
                             !.st = update_statistics(@, op, TRUE)],
             ok |-> success]

Enter == [dir |-> directory_, st |-> stats_, sent |-> <<>>]

StatsBounded(st) == \A k \in StatKeys : st[k] <= MaxStat

\* What a method hands back: the state it leaves (dir, st), the transport
\* operations it issued, and its return value.
Return(c, ok) == [dir |-> c.dir, st |-> c.st, sent |-> c.sent, ok |-> ok]

\* The method's effect becomes the manager's state.
Commit(r) ==
    /\ StatsBounded(r.st)
    /\ directory_' = r.dir
    /\ stats_' = r.st
    /\ UNCHANGED <<driver_, mmVars, fa, pfVars, hostVars, extVars, ncalls>>

read_install_mut(dir, a) ==
    [get_or_create_entry(dir, a) EXCEPT ![a] = [state |-> "EXCLUSIVE", tier |-> "L1"]]

\* request_read, success branch: the entry becomes SHARED in L1
read_install(dir, a) ==
    [get_or_create_entry(dir, a) EXCEPT ![a] = [state |-> "SHARED", tier |-> "L1"]]

request_read_call(c0, addr) ==
    LET a == align_to_cache_line(addr)
    IN IF get_entry(c0.dir, a) /\ c0.dir[a].state \in {"SHARED", "EXCLUSIVE", "MODIFIED"}
       THEN Return([c0 EXCEPT !.st = update_statistics(@, "READ", TRUE)], TRUE)
       ELSE LET c1 == [c0 EXCEPT !.st = update_statistics(@, "READ", FALSE)]
                r == send_coherence_op_to_fpga(c1, "READ", a)
                c2 == IF r.ok THEN [r.c EXCEPT !.dir = read_install(@, a)] ELSE r.c
            IN Return(c2, r.ok)

request_write_call(c0, addr) ==
    LET a == align_to_cache_line(addr)
        present == get_entry(c0.dir, a)
        c1 == IF present /\ c0.dir[a].state = "SHARED"
              THEN [c0 EXCEPT !.st = [update_statistics(@, "INVALIDATE", FALSE)
                                        EXCEPT !.invalidations_sent = @ + 1]]
              ELSE c0
        c2 == [c1 EXCEPT !.st = update_statistics(@, "WRITE", present)]
        r == send_coherence_op_to_fpga(c2, "WRITE", a)
        c3 == IF r.ok
              THEN [r.c EXCEPT !.dir = [get_or_create_entry(@, a) EXCEPT
                                          ![a] = [state |-> "MODIFIED", tier |-> "L1"]]]
              ELSE r.c
    IN Return(c3, r.ok)

invalidate_call(c0, addr) ==
    LET a == align_to_cache_line(addr)
    IN IF ~get_entry(c0.dir, a)
       THEN Return(c0, TRUE)
       ELSE LET c1 == IF c0.dir[a].state = "MODIFIED"
                      THEN [c0 EXCEPT !.st.writebacks_performed = @ + 1]
                      ELSE c0
                c2 == [c1 EXCEPT !.dir[a].state = "INVALID"]
                r == send_coherence_op_to_fpga(c2, "INVALIDATE", a)
                c3 == [r.c EXCEPT !.st.invalidations_sent = @ + 1]
            IN Return(c3, r.ok)

writeback_call(c0, addr) ==
    LET a == align_to_cache_line(addr)
    IN IF ~get_entry(c0.dir, a) \/ c0.dir[a].state # "MODIFIED"
       THEN Return(c0, TRUE)
       ELSE LET r == send_coherence_op_to_fpga(c0, "WRITEBACK", a)
                c1 == IF r.ok
                      THEN [r.c EXCEPT !.dir[a] = [state |-> "SHARED", tier |-> "L3"],
                                       !.st.writebacks_performed = @ + 1]
                      ELSE r.c
            IN Return(c1, r.ok)

\* The orders in which the range-for of flush_all can visit the lines in S
\* (std::unordered_map iteration order is unspecified).
VisitOrders(S) ==
    {f \in [1 .. Cardinality(S) -> S] : \A i, j \in DOMAIN f : f[i] = f[j] => i = j}

RECURSIVE flush_loop(_, _, _, _)
flush_loop(c, order, i, flushed) ==
    IF i > Len(order)
    THEN [c EXCEPT !.st.writebacks_performed = @ + flushed]
    ELSE LET a == order[i]
         IN IF c.dir[a].state = "MODIFIED"
            THEN LET r == send_coherence_op_to_fpga(c, "WRITEBACK", a)
                 IN flush_loop([r.c EXCEPT !.dir[a] = [state |-> "SHARED", tier |-> "L3"]],
                               order, i + 1, flushed + 1)
            ELSE flush_loop(c, order, i + 1, flushed)

flush_all_call_mut(c0, order) == Return(flush_loop(c0, order, 2, 0), TRUE)

flush_all_call(c0, order) == Return(flush_loop(c0, order, 1, 0), TRUE)

promote_to_l1_call(c0, addr) ==
    LET a == align_to_cache_line(addr)
        c1 == [c0 EXCEPT !.dir = get_or_create_entry(@, a)]
    IN IF c1.dir[a].tier = "L1"
       THEN Return(c1, TRUE)
       ELSE LET r == send_coherence_op_to_fpga(c1, "READ", a)
                c2 == IF r.ok THEN [r.c EXCEPT !.dir[a].tier = "L1"] ELSE r.c
            IN Return(c2, r.ok)

demote_to_l3_call(c0, addr) ==
    LET a == align_to_cache_line(addr)
    IN IF ~get_entry(c0.dir, a) \/ c0.dir[a].tier = "L3"
       THEN Return(c0, TRUE)
       ELSE LET c1 == IF c0.dir[a].state = "MODIFIED"
                      THEN LET r == send_coherence_op_to_fpga(c0, "WRITEBACK", a)
                           IN [r.c EXCEPT !.dir[a].state = "SHARED",
                                          !.st.writebacks_performed = @ + 1]
                      ELSE c0
            IN Return([c1 EXCEPT !.dir[a].tier = "L3"], TRUE)

update_tier_call(c0, addr, new_tier) ==
    LET a == align_to_cache_line(addr)
        c1 == [c0 EXCEPT !.dir = get_or_create_entry(@, a)]
    IN Return([c1 EXCEPT !.dir[a].tier = new_tier], TRUE)

RECURSIVE batch_invalidate_loop(_, _, _, _)
batch_invalidate_loop(c, addrs, i, all_success) ==
    IF i > Len(addrs)
    THEN Return([c EXCEPT !.st.invalidations_sent = @ + Len(addrs)], all_success)
    ELSE LET a == align_to_cache_line(addrs[i])
         IN IF get_entry(c.dir, a)
            THEN LET r == send_coherence_op_to_fpga(
                              [c EXCEPT !.dir[a].state = "INVALID"], "INVALIDATE", a)
                 IN batch_invalidate_loop(r.c, addrs, i + 1, all_success /\ r.ok)
            ELSE batch_invalidate_loop(c, addrs, i + 1, all_success)

batch_invalidate_call(c0, addrs) ==
    batch_invalidate_loop(c0, addrs, 1, TRUE)

RECURSIVE batch_writeback_loop(_, _, _, _)
batch_writeback_loop(c, data, i, all_success) ==
    IF i > Len(data)
    THEN Return([c EXCEPT !.st.writebacks_performed = @ + Len(data)], all_success)
    ELSE LET a == align_to_cache_line(data[i])
         IN IF get_entry(c.dir, a) /\ c.dir[a].state = "MODIFIED"
            THEN LET r == send_coherence_op_to_fpga(c, "WRITEBACK", a)
                 IN batch_writeback_loop(
                        [r.c EXCEPT !.dir[a] = [state |-> "SHARED", tier |-> "L3"]],
                        data, i + 1, all_success /\ r.ok)
            ELSE batch_writeback_loop(c, data, i + 1, all_success)

batch_writeback_call(c0, data) ==
    batch_writeback_loop(c0, data, 1, TRUE)

reset_statistics ==
    /\ stats_' = ZeroStats
    /\ UNCHANGED <<driver_, directory_, mmVars, fa, pfVars, hostVars, extVars, ncalls>>

request_read(addr) == Commit(request_read_call(Enter, addr))
request_write(addr) == Commit(request_write_call(Enter, addr))
invalidate(addr) == Commit(invalidate_call(Enter, addr))
writeback(addr) == Commit(writeback_call(Enter, addr))
flush_all == \E order \in VisitOrders(DOMAIN directory_) : Commit(flush_all_call(Enter, order))
promote_to_l1(addr) == Commit(promote_to_l1_call(Enter, addr))
demote_to_l3(addr) == Commit(demote_to_l3_call(Enter, addr))
update_tier(addr, new_tier) == Commit(update_tier_call(Enter, addr, new_tier))
batch_invalidate(addrs) == Commit(batch_invalidate_call(Enter, addrs))
batch_writeback(data) == Commit(batch_writeback_call(Enter, data))

\* argument lists of the batch operations
Batches == UNION {[1 .. n -> CohAddrs] : n \in 0 .. MaxBatch}

(***************************************************************************)
(* CXLMemoryManager                                                        *)
(***************************************************************************)
MMStatKeys == {"l1_hits", "l1_misses", "l2_hits", "l2_misses", "l3_accesses",
               "migrations_l1_to_l3", "migrations_l3_to_l1"}

\* What a thread that locks a std::mutex it already owns can get: it blocks
\* for ever, lock() throws resource_deadlock_would_occur, or (a build whose
\* mutexes are no-ops) it goes on.
RelockOutcomes == {"deadlock", "throw", "proceed"}

\* (virtual_addr / page_size_) * page_size_
PageAlign(va) == (va \div PageSize) * PageSize

get_page(m, va) == PageAlign(va) \in DOMAIN m.page_table_

\* v.erase(std::remove(v.begin(), v.end(), x), v.end())
Erase(v, x) == SelectSeq(v, LAMBDA y : y # x)

TierUsedPages(m, tier) ==
    CASE tier = "L1" -> Len(m.l1_pages_)
      [] tier = "L2" -> Len(m.l2_pages_)
      [] tier = "L3" -> Len(m.l3_pages_)

TierSizeBytes(m, tier) ==
    CASE tier = "L1" -> m.l1_size_bytes_
      [] tier = "L2" -> m.l2_size_bytes_
      [] tier = "L3" -> m.l3_size_bytes_

can_fit_in_tier(m, tier, size_bytes) ==
    TierUsedPages(m, tier) * PageSize + size_bytes <= TierSizeBytes(m, tier)

update_lru(m, va) == [m EXCEPT !.l1_lru_list_ = Append(Erase(@, va), va)]

\* One lock acquisition: the mutex and the mutexes the thread holds then
Acq(lock, held) == [lock |-> lock, held |-> held]

\* What a method hands back: the manager it leaves, how it ended ("return",
\* "hang": it never returns, "throw": it ends by an exception), its return
\* value, its lock acquisitions in order, and the pages it had written back
\* through the coherence manager (the manager holds no reference to one).
MMReturn(m, ret, acq) ==
    [mm |-> m, end |-> "return", ret |-> ret, acq |-> acq, writebacks |-> << >>]

MMAbort(m, end, acq) ==
    [mm |-> m, end |-> end, ret |-> FALSE, acq |-> acq, writebacks |-> << >>]

\* The constructor, with the tier sizes in bytes
MMNew(l1_size_bytes, l2_size_bytes, l3_size_bytes) ==
    [l1_size_bytes_ |-> l1_size_bytes,
     l2_size_bytes_ |-> l2_size_bytes,
     l3_size_bytes_ |-> l3_size_bytes,
     page_table_ |-> << >>,
     l1_pages_ |-> << >>, l2_pages_ |-> << >>, l3_pages_ |-> << >>,
     l1_lru_list_ |-> << >>,
     next_virtual_addr_ |-> VirtualBase,
     next_physical_addr_l1_ |-> PhysBaseL1,
     next_physical_addr_l2_ |-> PhysBaseL2,
     next_physical_addr_l3_ |-> PhysBaseL3,
     stats_ |-> [k \in MMStatKeys |-> 0]]

NewPage(physical_addr, tier) ==
    [physical_addr |-> physical_addr, tier |-> tier, state |-> "EXCLUSIVE",
     access_count |-> 0, is_hot |-> FALSE]

mm_allocate_call(m, size_bytes, preferred_tier) ==
    LET num_pages == (size_bytes + PageSize - 1) \div PageSize
        required_bytes == num_pages * PageSize
        actual_tier == IF preferred_tier = "L1" /\ ~can_fit_in_tier(m, "L1", required_bytes)
                       THEN "L3" ELSE preferred_tier
        virtual_addr == m.next_virtual_addr_
        physical_addr_base ==
            CASE actual_tier = "L1" -> m.next_physical_addr_l1_
              [] actual_tier = "L2" -> m.next_physical_addr_l2_
              [] actual_tier = "L3" -> m.next_physical_addr_l3_
        m1 == CASE actual_tier = "L1" ->
                     [m EXCEPT !.next_physical_addr_l1_ = @ + required_bytes,
                               !.l1_pages_ = Append(@, virtual_addr)]
                [] actual_tier = "L2" ->
                     [m EXCEPT !.next_physical_addr_l2_ = @ + required_bytes,
                               !.l2_pages_ = Append(@, virtual_addr)]
                [] actual_tier = "L3" ->
                     [m EXCEPT !.next_physical_addr_l3_ = @ + required_bytes,
                               !.l3_pages_ = Append(@, virtual_addr)]
        created == [va \in {virtual_addr + i * PageSize : i \in 0 .. num_pages - 1} |->
                        NewPage(physical_addr_base + (va - virtual_addr), actual_tier)]
        m2 == [m1 EXCEPT !.page_table_ = created @@ @,
                         !.next_virtual_addr_ = @ + required_bytes]
    IN MMReturn(m2, virtual_addr, <<Acq("allocation", {}), Acq("page_table", {"allocation"})>>)

mm_deallocate_call(m, virtual_addr) ==
    LET acq == <<Acq("page_table", {})>>
    IN IF virtual_addr \notin DOMAIN m.page_table_
       THEN MMReturn(m, TRUE, acq)
       ELSE LET tier == m.page_table_[virtual_addr].tier
                m1 == CASE tier = "L1" ->
                             [m EXCEPT !.l1_pages_ = Erase(@, virtual_addr),
                                       !.l1_lru_list_ = Erase(@, virtual_addr)]
                        [] tier = "L2" -> [m EXCEPT !.l2_pages_ = Erase(@, virtual_addr)]
                        [] tier = "L3" -> [m EXCEPT !.l3_pages_ = Erase(@, virtual_addr)]
                rest == DOMAIN m.page_table_ \ {virtual_addr}
            IN MMReturn([m1 EXCEPT !.page_table_ = [va \in rest |-> m.page_table_[va]]],
                        TRUE, acq)

translate_virtual_to_physical(m, virtual_addr) ==
    LET page_addr == PageAlign(virtual_addr)
    IN IF page_addr \in DOMAIN m.page_table_
       THEN m.page_table_[page_addr].physical_addr + (virtual_addr - page_addr)
       ELSE 0

is_in_cache(m, virtual_addr, tier) ==
    LET page_addr == PageAlign(virtual_addr)
    IN page_addr \in DOMAIN m.page_table_ /\ m.page_table_[page_addr].tier = tier

\* demote_to_l3 from the point where it owns page_table_mutex_
demote_to_l3_locked(m, virtual_addr) ==
    LET pa == PageAlign(virtual_addr)
    IN IF ~get_page(m, virtual_addr) \/ m.page_table_[pa].tier = "L3"
       THEN [mm |-> m, ret |-> FALSE]
       ELSE LET old_tier == m.page_table_[pa].tier
                m1 == [m EXCEPT !.page_table_[pa].tier = "L3"]
                m2 == CASE old_tier = "L1" ->
                             [m1 EXCEPT !.l1_pages_ = Erase(@, virtual_addr),
                                        !.l1_lru_list_ = Erase(@, virtual_addr),
                                        !.stats_.migrations_l1_to_l3 = @ + 1]
                        [] old_tier = "L2" ->
                             [m1 EXCEPT !.l2_pages_ = Erase(@, virtual_addr)]
            IN [mm |-> [m2 EXCEPT !.l3_pages_ = Append(@, virtual_addr)], ret |-> TRUE]

mm_demote_to_l3_call(m, virtual_addr) ==
    LET r == demote_to_l3_locked(m, virtual_addr)
    IN MMReturn(r.mm, r.ret, <<Acq("page_table", {})>>)

\* evict_l1_lru, called with page_table_mutex_ held: its call of demote_to_l3
\* locks page_table_mutex_ again, and relock says what the build makes of it.
\* Returns the manager, how the call ended, and the lock acquisitions.
evict_l1_lru(m, relock) ==
    IF m.l1_lru_list_ = << >>
    THEN [mm |-> m, end |-> "return", acq |-> << >>]
    ELSE LET lru_addr == Head(m.l1_lru_list_)
             m1 == [m EXCEPT !.l1_lru_list_ = Tail(@)]
             acq == <<Acq("page_table", {"page_table"})>>
         IN CASE relock = "deadlock" -> [mm |-> m1, end |-> "hang", acq |-> acq]
              [] relock = "throw" -> [mm |-> m1, end |-> "throw", acq |-> acq]
              [] relock = "proceed" ->
                    [mm |-> demote_to_l3_locked(m1, lru_addr).mm, end |-> "return", acq |-> acq]

mm_promote_to_l1_call(m, virtual_addr, relock) ==
    LET pa == PageAlign(virtual_addr)
        acq == <<Acq("page_table", {})>>
    IN IF ~get_page(m, virtual_addr) \/ m.page_table_[pa].tier = "L1"
       THEN MMReturn(m, FALSE, acq)
       ELSE LET e == IF ~can_fit_in_tier(m, "L1", PageSize)
                     THEN evict_l1_lru(m, relock)
                     ELSE [mm |-> m, end |-> "return", acq |-> << >>]
            IN IF e.end # "return"
               THEN MMAbort(e.mm, e.end, acq \o e.acq)
               ELSE LET old_tier == e.mm.page_table_[pa].tier
                        m1 == [e.mm EXCEPT !.page_table_[pa].tier = "L1"]
                        m2 == CASE old_tier = "L2" ->
                                     [m1 EXCEPT !.l2_pages_ = Erase(@, virtual_addr)]
                                [] old_tier = "L3" ->
                                     [m1 EXCEPT !.l3_pages_ = Erase(@, virtual_addr),
                                                !.stats_.migrations_l3_to_l1 = @ + 1]
                                [] OTHER -> m1
                        m3 == [m2 EXCEPT !.l1_pages_ = Append(@, virtual_addr)]
                    IN MMReturn(update_lru(m3, virtual_addr), TRUE, acq \o e.acq)

mm_invalidate_page_call(m, virtual_addr) ==
    LET pa == PageAlign(virtual_addr)
    IN MMReturn(IF get_page(m, virtual_addr)
                THEN [m EXCEPT !.page_table_[pa].state = "INVALID"] ELSE m,
                TRUE, <<Acq("page_table", {})>>)

mm_mark_modified_call(m, virtual_addr) ==
    LET pa == PageAlign(virtual_addr)
    IN MMReturn(IF get_page(m, virtual_addr)
                THEN [m EXCEPT !.page_table_[pa].state = "MODIFIED"] ELSE m,
                TRUE, <<Acq("page_table", {})>>)

get_page_state(m, virtual_addr) ==
    IF get_page(m, virtual_addr) THEN m.page_table_[PageAlign(virtual_addr)].state
    ELSE "INVALID"

mm_update_access_tracking_call(m, virtual_addr) ==
    LET pa == PageAlign(virtual_addr)
    IN IF ~get_page(m, virtual_addr)
       THEN MMReturn(m, TRUE, <<Acq("page_table", {})>>)
       ELSE LET tier == m.page_table_[pa].tier
                m1 == [m EXCEPT !.page_table_[pa].access_count = @ + 1]
                m2 == CASE tier = "L1" -> [m1 EXCEPT !.stats_.l1_hits = @ + 1]
                        [] tier = "L2" -> [m1 EXCEPT !.stats_.l2_hits = @ + 1]
                        [] OTHER -> [m1 EXCEPT !.stats_.l3_accesses = @ + 1]
            IN MMReturn(update_lru(m2, virtual_addr), TRUE,
                        <<Acq("page_table", {}), Acq("mm_stats", {"page_table"})>>)

mm_is_hot_page_call(m, virtual_addr) ==
    LET pa == PageAlign(virtual_addr)
    IN IF get_page(m, virtual_addr)
       THEN LET hot == m.page_table_[pa].access_count > HotThreshold
            IN MMReturn([m EXCEPT !.page_table_[pa].is_hot = hot], hot,
                        <<Acq("page_table", {})>>)
       ELSE MMReturn(m, FALSE, <<Acq("page_table", {})>>)

mm_reset_statistics_call(m) ==
    MMReturn([m EXCEPT !.stats_ = [k \in MMStatKeys |-> 0]], TRUE, <<Acq("mm_stats", {})>>)

MMBounded(m) == m.next_virtual_addr_ <= VirtualBase + MaxVirtualPages * PageSize

\* The method's effect becomes the manager's state; a method that blocked on
\* itself leaves page_table_mutex_ locked for ever.  No method gets past a
\* mutex that is stuck.
\* The mutexes a call that blocked for ever keeps: the one it waits for, which
\* it owns, and the ones it held then
StuckBy(r) ==
    IF r.end = "hang"
    THEN {r.acq[Len(r.acq)].lock} \cup r.acq[Len(r.acq)].held
    ELSE {}

MMCommit(r) ==
    /\ \A i \in DOMAIN r.acq : r.acq[i].lock \notin stuck
    /\ MMBounded(r.mm)
    /\ mm' = r.mm
    /\ stuck' = stuck \cup StuckBy(r)
    /\ UNCHANGED <<cohVars, fa, pfVars, hostVars, extVars>>

\* addresses passed to the manager: every page the cursor can hand out, at
\* the offsets 0 .. MaxOffset, and the address 0, which is never allocated
VAddrs ==
    {0} \cup {VirtualBase + i * PageSize + off :
                 i \in 0 .. MaxVirtualPages - 1, off \in 0 .. MaxOffset}

mm_allocate(size_bytes, tier) == MMCommit(mm_allocate_call(mm, size_bytes, tier))
mm_deallocate(va) == MMCommit(mm_deallocate_call(mm, va))
mm_promote_to_l1(va, relock) == MMCommit(mm_promote_to_l1_call(mm, va, relock))
mm_demote_to_l3(va) == MMCommit(mm_demote_to_l3_call(mm, va))
mm_invalidate_page(va) == MMCommit(mm_invalidate_page_call(mm, va))
mm_mark_modified(va) == MMCommit(mm_mark_modified_call(mm, va))
mm_update_access_tracking(va) == MMCommit(mm_update_access_tracking_call(mm, va))
mm_is_hot_page(va) == MMCommit(mm_is_hot_page_call(mm, va))
mm_reset_statistics == MMCommit(mm_reset_statistics_call(mm))

\* sizes passed to allocate: 0, the whole numbers of pages, and one byte less
AllocSizes ==
    {0} \cup {k * PageSize - d : k \in 1 .. MaxAllocPages, d \in {0, 1}}

\* One more call of a run of at most n calls
Call(n) == ncalls < n /\ ncalls' = ncalls + 1

InitMM ==
    /\ mm = MMNew(L1CapPages * PageSize, L2CapPages * PageSize, L3CapPages * PageSize)
    /\ stuck = {}
    /\ ncalls = 0

(***************************************************************************)
(* CXLMemoryAllocator, the facade (integration/memory_allocator.cpp)       *)
(***************************************************************************)
FaStatKeys ==
    {"total_allocations", "total_deallocations", "current_allocated_bytes",
     "peak_allocated_bytes"}

\* The constructor
FaNew ==
    [initialized_ |-> FALSE, handle_map_ |-> << >>, stats_ |-> [k \in FaStatKeys |-> 0]]

\* The lock acquisitions acq of a callee, made while the caller holds H
WithHeld(acq, H) == [i \in DOMAIN acq |-> Acq(acq[i].lock, acq[i].held \cup H)]

\* A facade call came to an end: the facade and its manager as it leaves
\* them, how it ended, the pointer it returns, the lock acquisitions
FaReturn(f, m, end, ret, acq) ==
    [fa |-> f, mm |-> m, end |-> end, ret |-> ret, acq |-> acq]

\* initialize builds a new manager of the given tier sizes
initialize_call(f, l1_size, l2_size, l3_size) ==
    FaReturn([f EXCEPT !.initialized_ = TRUE], MMNew(l1_size, l2_size, l3_size),
             "return", 1, << >>)

cxl_malloc_call(f, m, size_bytes) ==
    IF ~f.initialized_
    THEN FaReturn(f, m, "return", 0, << >>)
    ELSE LET a == mm_allocate_call(m, size_bytes, "L3")
             virtual_addr == a.ret
             handle == [virtual_addr |-> virtual_addr, size_bytes |-> size_bytes]
             ptr == virtual_addr
             current == f.stats_.current_allocated_bytes + size_bytes
             f1 == [f EXCEPT !.handle_map_ = (ptr :> handle) @@ @,
                             !.stats_.total_allocations = @ + 1,
                             !.stats_.current_allocated_bytes = current,
                             !.stats_.peak_allocated_bytes =
                                 IF current > @ THEN current ELSE @]
         IN IF virtual_addr = 0
            THEN FaReturn(f, a.mm, "return", 0, a.acq)
            ELSE FaReturn(f1, a.mm, "return", ptr,
                          a.acq \o <<Acq("handle_map", {}),
                                     Acq("facade_stats", {"handle_map"})>>)

cxl_free_call(f, m, ptr) ==
    IF ~f.initialized_ \/ ptr = 0
    THEN FaReturn(f, m, "return", 0, << >>)
    ELSE IF ptr \notin DOMAIN f.handle_map_
    THEN FaReturn(f, m, "return", 0, <<Acq("handle_map", {})>>)
    ELSE LET handle == f.handle_map_[ptr]
             d == mm_deallocate_call(m, handle.virtual_addr)
             rest == DOMAIN f.handle_map_ \ {ptr}
             f1 == [f EXCEPT !.stats_.total_deallocations = @ + 1,
                             !.stats_.current_allocated_bytes = @ - handle.size_bytes,
                             !.handle_map_ = [q \in rest |-> f.handle_map_[q]]]
         IN FaReturn(f1, d.mm, "return", 0,
                     <<Acq("handle_map", {})>> \o WithHeld(d.acq, {"handle_map"})
                        \o <<Acq("facade_stats", {"handle_map"})>>)

cxl_access_call(f, m, handle, offset, relock) ==
    IF ~f.initialized_ \/ handle = 0
    THEN FaReturn(f, m, "return", 0, << >>)
    ELSE IF handle \notin DOMAIN f.handle_map_
    THEN FaReturn(f, m, "return", 0, <<Acq("handle_map", {})>>)
    ELSE LET virtual_addr == f.handle_map_[handle].virtual_addr + offset
             held == {"handle_map"}
             lookup == <<Acq("page_table", held)>>
             u == mm_update_access_tracking_call(m, virtual_addr)
             acq_u == <<Acq("handle_map", {})>> \o WithHeld(u.acq, held)
             h == mm_is_hot_page_call(u.mm, virtual_addr)
             from == IF is_in_cache(u.mm, virtual_addr, "L2") THEN h.mm ELSE u.mm
             p == mm_promote_to_l1_call(from, virtual_addr, relock)
         IN IF is_in_cache(u.mm, virtual_addr, "L1")
            THEN FaReturn(f, u.mm, "return", virtual_addr, acq_u \o lookup)
            ELSE IF is_in_cache(u.mm, virtual_addr, "L2") /\ ~h.ret
            THEN FaReturn(f, h.mm, "return", virtual_addr,
                          acq_u \o lookup \o lookup \o WithHeld(h.acq, held))
            ELSE FaReturn(f, p.mm, p.end,
                          IF p.end = "return" THEN virtual_addr ELSE 0,
                          acq_u \o lookup \o lookup
                             \o (IF is_in_cache(u.mm, virtual_addr, "L2")
                                 THEN WithHeld(h.acq, held) ELSE << >>)
                             \o WithHeld(p.acq, held))

FaCommit(r) ==
    /\ \A i \in DOMAIN r.acq : r.acq[i].lock \notin stuck
    /\ MMBounded(r.mm)
    /\ fa' = r.fa
    /\ mm' = r.mm
    /\ stuck' = stuck \cup StuckBy(r)
    /\ UNCHANGED <<cohVars, pfVars, hostVars, extVars>>

initialize ==
    FaCommit(initialize_call(fa, L1CapPages * PageSize, L2CapPages * PageSize,
                             L3CapPages * PageSize))
cxl_malloc(size_bytes) == FaCommit(cxl_malloc_call(fa, mm, size_bytes))
cxl_free(ptr) == FaCommit(cxl_free_call(fa, mm, ptr))
cxl_access(handle, offset, relock) == FaCommit(cxl_access_call(fa, mm, handle, offset, relock))

\* offsets passed to cxl_access: inside the first page, and the second page
AccessOffsets == (0 .. MaxOffset) \cup {PageSize}

InitFacade == fa = FaNew

(***************************************************************************)
(* SpeculativePrefetcher (prefetcher/speculative_prefetcher.cpp)           *)
(***************************************************************************)
PfStatKeys == {"total_prefetches", "successful_prefetches", "mispredictions"}

\* The constructor
PfNew(prefetch_depth) ==
    [prefetch_depth_ |-> prefetch_depth,
     adaptive_depth_ |-> prefetch_depth,
     accuracy_history_ |-> << >>,
     outstanding_prefetches_ |-> << >>,
     stats_ |-> [k \in PfStatKeys |-> 0]]

\* a | b on naturals
RECURSIVE BitOr(_, _)
BitOr(a, b) ==
    IF a = 0 THEN b
    ELSE IF b = 0 THEN a
    ELSE (IF a % 2 = 1 \/ b % 2 = 1 THEN 1 ELSE 0) + 2 * BitOr(a \div 2, b \div 2)

compute_kv_address(req_id, layer_id, position) ==
    BitOr(BitOr(req_id * ReqStride, layer_id * LayerStride), position)

\* The token ids, and orders the predictor can rank them in: every token at
\* every rank
Tokens == 0 .. VocabSize - 1

Rankings ==
    {[i \in 1 .. VocabSize |-> (i - 1 + s) % VocabSize] : s \in Tokens}

predict_top_k_mut(ranking, k) == ranking

\* LSTMPredictor::predict_top_k: the first min(k, vocab_size_) tokens of the
\* ranking the network gives the vocabulary for this history
predict_top_k(ranking, k) == SubSeq(ranking, 1, IF k < VocabSize THEN k ELSE VocabSize)

issue_dma_prefetch_mut(q, req) == Append(q, req)

\* issue_dma_prefetch on the queue q
issue_dma_prefetch(q, req) ==
    LET q1 == Append(q, req)
    IN IF Len(q1) > QueueLimit THEN Tail(q1) ELSE q1

\* The body of the loop of prefetch for the i-th prediction
prefetch_iteration(c, m, predictions, layer_id, i) ==
    LET virtual_addr == compute_kv_address(0, layer_id, i)
        req == [virtual_addr |-> virtual_addr, layer_id |-> layer_id,
                predicted_token_id |-> predictions[i]]
    IN IF is_in_cache(m, virtual_addr, "L1") \/ is_in_cache(m, virtual_addr, "L2")
       THEN c
       ELSE [q |-> issue_dma_prefetch(c.q, req),
             out |-> Append(c.out, req),
             issued |-> Append(c.issued, req)]

\* The loop of prefetch from the i-th prediction on; c = [q, out, issued]:
\* the queue, the requests to return, the requests handed to
\* issue_dma_prefetch
RECURSIVE prefetch_loop(_, _, _, _, _)
prefetch_loop(c, m, predictions, layer_id, i) ==
    IF i > Len(predictions) THEN c
    ELSE prefetch_loop(prefetch_iteration(c, m, predictions, layer_id, i),
                       m, predictions, layer_id, i + 1)

\* prefetch(token_history, layer_id, depth); ranking stands for what the
\* predictor makes of token_history.  Returns the prefetcher it leaves, the
\* requests it returns, and the requests it enqueued, in order.
prefetch_call(p, m, ranking, layer_id, depth) ==
    LET actual_depth == IF depth > 0 THEN depth ELSE p.adaptive_depth_
        predictions == predict_top_k(ranking, actual_depth)
        c == prefetch_loop([q |-> p.outstanding_prefetches_, out |-> << >>,
                            issued |-> << >>], m, predictions, layer_id, 1)
    IN [pf |-> [p EXCEPT !.outstanding_prefetches_ = c.q,
                         !.stats_.total_prefetches = @ + Len(c.out)],
        ret |-> c.out, issued |-> c.issued, actual_depth |-> actual_depth,
        locks |-> IF predictions = << >> THEN {} ELSE {"page_table"}]

Member(x, list) == \E i \in DOMAIN list : list[i] = x

handle_misprediction_call_mut(p, actual_token, predicted_tokens) ==
    [p EXCEPT !.stats_.mispredictions = @ + 1]

handle_misprediction_call(p, actual_token, predicted_tokens) ==
    IF ~Member(actual_token, predicted_tokens)
    THEN [p EXCEPT !.stats_.mispredictions = @ + 1]
    ELSE p

RECURSIVE SumSeq(_)
SumSeq(h) == IF h = << >> THEN 0 ELSE Head(h) + SumSeq(Tail(h))

\* recent_accuracy > 0.95 and recent_accuracy < 0.85, for recent_accuracy =
\* sum / 10.0 with sum the number of correct samples among the last ten
Above95(sum) == sum * 100 > 95 * RecentCount
Below85(sum) == sum * 100 < 85 * RecentCount

update_prediction_accuracy_call_mut(p, was_correct) ==
    [p EXCEPT !.accuracy_history_ = Append(@, IF was_correct THEN 1 ELSE 0),
              !.adaptive_depth_ = IF was_correct THEN @ + 1 ELSE @ - 1]

\* update_prediction_accuracy(request_id, was_correct); request_id is not used
update_prediction_accuracy_call(p, was_correct) ==
    LET h1 == Append(p.accuracy_history_, IF was_correct THEN 1 ELSE 0)
        h == IF Len(h1) > AccWindowSize THEN Tail(h1) ELSE h1
        recent == SumSeq(SubSeq(h, Len(h) - RecentCount + 1, Len(h)))
        d == p.adaptive_depth_
    IN [p EXCEPT !.accuracy_history_ = h,
                 !.adaptive_depth_ =
                     IF Len(h) >= RecentCount
                     THEN IF Above95(recent) /\ d < MaxAdaptiveDepth THEN d + 1
                          ELSE IF Below85(recent) /\ d > MinDepth THEN d - 1
                          ELSE d
                     ELSE d]

set_prefetch_depth_call(p, depth) ==
    [p EXCEPT !.prefetch_depth_ = depth, !.adaptive_depth_ = depth]

pf_reset_statistics_call(p) == [p EXCEPT !.stats_ = [k \in PfStatKeys |-> 0]]

\* The prefetcher's methods change the prefetcher only
PfCommit(p) ==
    /\ pf' = p
    /\ UNCHANGED <<cohVars, mmVars, fa, inflight, hostVars, extVars>>

\* prefetch cannot get past is_in_cache while page_table_mutex_ is stuck
prefetch(ranking, layer_id, depth) ==
    LET r == prefetch_call(pf, mm, ranking, layer_id, depth)
    IN r.locks \cap stuck = {} /\ PfCommit(r.pf)

handle_misprediction(actual_token, predicted_tokens) ==
    PfCommit(handle_misprediction_call(pf, actual_token, predicted_tokens))

update_prediction_accuracy(was_correct) ==
    PfCommit(update_prediction_accuracy_call(pf, was_correct))

set_prefetch_depth(depth) == PfCommit(set_prefetch_depth_call(pf, depth))

pf_reset_statistics == PfCommit(pf_reset_statistics_call(pf))

(***************************************************************************)
(* prefetch called by several threads.  Each thread runs the code of       *)
(* prefetch a statement at a time: the loop body's is_in_cache and         *)
(* issue_dma_prefetch take their mutexes and are one step; the threads'    *)
(* steps interleave.                                                       *)
(***************************************************************************)
Threads == 1 .. NumThreads

NoCall == [pc |-> "idle", predictions |-> << >>, layer_id |-> 0, i |-> 0, out |-> << >>]

\* lines 32-38: the depth is read, the predictor is asked
prefetch_begin(t, ranking, layer_id, depth) ==
    /\ inflight[t].pc = "idle"
    /\ LET actual_depth == IF depth > 0 THEN depth ELSE pf.adaptive_depth_
       IN inflight' = [inflight EXCEPT ![t] =
              [pc |-> "loop", predictions |-> predict_top_k(ranking, actual_depth),
               layer_id |-> layer_id, i |-> 1, out |-> << >>]]
    /\ UNCHANGED <<cohVars, mmVars, fa, pf, hostVars, extVars>>

\* lines 41-67: one iteration of the loop
prefetch_step(t) ==
    LET f == inflight[t]
        c == prefetch_iteration([q |-> pf.outstanding_prefetches_, out |-> f.out,
                                 issued |-> << >>], mm, f.predictions, f.layer_id, f.i)
    IN /\ f.pc = "loop" /\ f.i <= Len(f.predictions)
       /\ "page_table" \notin stuck
       /\ pf' = [pf EXCEPT !.outstanding_prefetches_ = c.q]
       /\ inflight' = [inflight EXCEPT ![t].i = f.i + 1, ![t].out = c.out]
       /\ UNCHANGED <<cohVars, mmVars, fa, hostVars, extVars, ncalls>>

\* lines 72-81: the statistics, and the return
prefetch_return(t) ==
    LET f == inflight[t]
    IN /\ f.pc = "loop" /\ f.i > Len(f.predictions)
       /\ pf' = [pf EXCEPT !.stats_.total_prefetches = @ + Len(f.out)]
       /\ inflight' = [inflight EXCEPT ![t] = NoCall]
       /\ UNCHANGED <<cohVars, mmVars, fa, hostVars, extVars, ncalls>>

InitPrefetcher ==
    /\ pf = PfNew(DefaultDepth)
    /\ inflight = [t \in Threads |-> NoCall]

\* lists of predicted tokens handed to handle_misprediction
TokenLists == UNION {[1 .. n -> Tokens] : n \in 0 .. 2}

\* The prefetcher, and the allocator calls that put pages into the tiers
NextPF ==
    \/ \E ranking \in Rankings, layer_id \in 0 .. MaxLayer, depth \in 0 .. MaxDepth :
          Call(MaxCallsPF) /\ prefetch(ranking, layer_id, depth)
    \/ \E actual_token \in Tokens, predicted_tokens \in TokenLists :
          Call(MaxCallsPF) /\ handle_misprediction(actual_token, predicted_tokens)
    \/ \E depth \in 0 .. MaxDepth : Call(MaxCallsPF) /\ set_prefetch_depth(depth)
    \/ Call(MaxCallsPF) /\ pf_reset_statistics
    \/ \E size \in AllocSizes, t \in Tiers : Call(MaxCallsPF) /\ mm_allocate(size, t)
    \/ \E va \in VAddrs, relock \in RelockOutcomes :
          Call(MaxCallsPF) /\ mm_promote_to_l1(va, relock)
    \/ \E va \in VAddrs : Call(MaxCallsPF) /\ mm_demote_to_l3(va)

\* prefetch from several threads, and the allocator calls that put pages
\* into the tiers
NextPFC ==
    \/ \E t \in Threads, ranking \in Rankings, layer_id \in 0 .. MaxLayer,
          depth \in 0 .. MaxDepth :
          Call(MaxCallsPFC) /\ prefetch_begin(t, ranking, layer_id, depth)
    \/ \E t \in Threads : prefetch_step(t)
    \/ \E t \in Threads : prefetch_return(t)
    \/ \E size \in AllocSizes, t \in Tiers : Call(MaxCallsPFC) /\ mm_allocate(size, t)

(***************************************************************************)
(* The C API: speckv_c_api.cpp over SpeckvAllocator and SpeckvDriver.      *)
(* Every function holds g_mutex from entry to return.                      *)
(***************************************************************************)
SPECKV_OK == "SPECKV_OK"
SPECKV_ERR_GENERAL == "SPECKV_ERR_GENERAL"
SPECKV_ERR_DRIVER == "SPECKV_ERR_DRIVER"
SPECKV_ERR_INVAL == "SPECKV_ERR_INVAL"

\* SpeckvAllocator's constructor
SpeckvAllocatorNew == [allocs_ |-> << >>, page_table_ |-> << >>, next_handle_ |-> 1]

\* The globals before any call; g_allocator is a null pointer when
\* has_allocator is FALSE, and the members are then nobody's
CapiNew ==
    [g_initialized |-> FALSE, g_driver |-> FALSE, has_allocator |-> FALSE,
     g_allocator |-> SpeckvAllocatorNew]

\* An API function returns: the globals, the status, what it stored through
\* its out pointer (0: nothing stored)
ApiReturn(c, status, out) == [capi |-> c, status |-> status, out |-> out]

\* SpeckvAllocator::alloc
speckv_allocator_alloc(a, bytes) ==
    LET handle == a.next_handle_
        num_pages == (bytes + HostPageSize - 1) \div HostPageSize
        page(i) == [virt_page_id |-> handle * HandleShift + i * HostPageSize,
                    phys_page_id |-> HostPhysBase + handle * HostPhysShift + i * HostPageSize,
                    flags |-> 0]
        pages == [k \in 1 .. num_pages |-> page(k - 1)]
        added == [v \in {pages[k].virt_page_id : k \in 1 .. num_pages} |->
                     CHOOSE pg \in {pages[k] : k \in 1 .. num_pages} : pg.virt_page_id = v]
    IN [a |-> [a EXCEPT !.next_handle_ = handle + 1,
                        !.page_table_ = added @@ @,
                        !.allocs_ = (handle :> [size_bytes |-> bytes, pages |-> pages]) @@ @],
        ret |-> handle]

\* SpeckvAllocator::free
speckv_allocator_free(a, handle) ==
    IF handle \notin DOMAIN a.allocs_ THEN a
    ELSE LET pages == a.allocs_[handle].pages
             gone == {pages[k].virt_page_id : k \in DOMAIN pages}
             keep == DOMAIN a.page_table_ \ gone
             rest == DOMAIN a.allocs_ \ {handle}
         IN [a EXCEPT !.page_table_ = [v \in keep |-> a.page_table_[v]],
                      !.allocs_ = [h \in rest |-> a.allocs_[h]]]

\* SpeckvAllocator::is_in_l1_or_l2: bit 0 or bit 1 of the flags
is_in_l1_or_l2(a, virt_page_id) ==
    virt_page_id \in DOMAIN a.page_table_ /\ a.page_table_[virt_page_id].flags % 4 # 0

\* SpeckvAllocator::sync_fetch_page, once its polling loop has ended: the L2
\* bit is set
sync_fetch_page(a, virt_page_id) ==
    IF virt_page_id \notin DOMAIN a.page_table_ THEN a
    ELSE [a EXCEPT !.page_table_[virt_page_id].flags =
                      IF (@ \div 2) % 2 = 1 THEN @ ELSE @ + 2]

\* SpeckvAllocator::access; ret 0 is the null pointer
speckv_allocator_access(a, handle, offset) ==
    IF handle \notin DOMAIN a.allocs_ THEN [a |-> a, ret |-> 0]
    ELSE LET page_idx == offset \div HostPageSize
             page_offset == offset % HostPageSize
             pages == a.allocs_[handle].pages
         IN IF page_idx >= Len(pages) THEN [a |-> a, ret |-> 0]
            ELSE LET page == pages[page_idx + 1]
                 IN [a |-> IF ~is_in_l1_or_l2(a, page.virt_page_id)
                           THEN sync_fetch_page(a, page.virt_page_id) ELSE a,
                     ret |-> page.phys_page_id + page_offset]

speckv_init_call_mut(c, dev_opens) ==
    IF ~dev_opens
    THEN ApiReturn(c, SPECKV_ERR_GENERAL, 0)
    ELSE ApiReturn([g_initialized |-> TRUE, g_driver |-> TRUE, has_allocator |-> TRUE,
                    g_allocator |-> SpeckvAllocatorNew], SPECKV_OK, 0)

\* speckv_init(dev_path); dev_opens: open(dev_path) succeeds in the
\* SpeckvDriver constructor, which throws if it does not
speckv_init_call(c, dev_opens) ==
    IF c.g_initialized
    THEN ApiReturn(c, SPECKV_ERR_GENERAL, 0)
    ELSE IF ~dev_opens
    THEN ApiReturn(c, SPECKV_ERR_GENERAL, 0)
    ELSE ApiReturn([g_initialized |-> TRUE, g_driver |-> TRUE, has_allocator |-> TRUE,
                    g_allocator |-> SpeckvAllocatorNew], SPECKV_OK, 0)

speckv_finalize_call(c) == ApiReturn(CapiNew, SPECKV_OK, 0)

\* speckv_alloc(bytes, hint, out_handle); has_out: out_handle is not null
speckv_alloc_call(c, bytes, has_out) ==
    IF ~c.g_initialized \/ ~has_out
    THEN ApiReturn(c, SPECKV_ERR_INVAL, 0)
    ELSE LET r == speckv_allocator_alloc(c.g_allocator, bytes)
         IN ApiReturn([c EXCEPT !.g_allocator = r.a], SPECKV_OK, r.ret)

speckv_free_call(c, handle) ==
    IF ~c.g_initialized
    THEN ApiReturn(c, SPECKV_ERR_INVAL, 0)
    ELSE ApiReturn([c EXCEPT !.g_allocator = speckv_allocator_free(@, handle)],
                   SPECKV_OK, 0)

\* speckv_access(handle, offset_bytes, length_bytes, out_gpu_ptr)
speckv_access_call(c, handle, offset_bytes, has_out) ==
    IF ~c.g_initialized \/ ~has_out
    THEN ApiReturn(c, SPECKV_ERR_INVAL, 0)
    ELSE LET r == speckv_allocator_access(c.g_allocator, handle, offset_bytes)
             c1 == [c EXCEPT !.g_allocator = r.a]
         IN IF r.ret = 0
            THEN ApiReturn(c1, SPECKV_ERR_GENERAL, 0)
            ELSE ApiReturn(c1, SPECKV_OK, r.ret)

\* The API's functions change the globals only
ApiCommit(r) ==
    /\ capi' = r.capi
    /\ UNCHANGED <<cohVars, mmVars, fa, pfVars, codec, extVars>>

speckv_init(dev_opens) == ApiCommit(speckv_init_call(capi, dev_opens))
speckv_finalize == ApiCommit(speckv_finalize_call(capi))
speckv_alloc(bytes, has_out) == ApiCommit(speckv_alloc_call(capi, bytes, has_out))
speckv_free(handle) == ApiCommit(speckv_free_call(capi, handle))
speckv_access(handle, offset_bytes, has_out) ==
    ApiCommit(speckv_access_call(capi, handle, offset_bytes, has_out))

InitCapi == capi = CapiNew

\* sizes, handles and offsets passed to the API
HostSizes == {0} \cup {k * HostPageSize - d : k \in 1 .. MaxHostPages, d \in {0, 1}}
HostHandles == 0 .. MaxCallsApi
HostOffsets == {0, 1, HostPageSize, MaxHostPages * HostPageSize}

NextApi ==
    \/ \E dev_opens \in BOOLEAN : Call(MaxCallsApi) /\ speckv_init(dev_opens)
    \/ Call(MaxCallsApi) /\ speckv_finalize
    \/ \E bytes \in HostSizes, has_out \in BOOLEAN :
          Call(MaxCallsApi) /\ speckv_alloc(bytes, has_out)
    \/ \E handle \in HostHandles : Call(MaxCallsApi) /\ speckv_free(handle)
    \/ \E handle \in HostHandles, offset_bytes \in HostOffsets, has_out \in BOOLEAN :
          Call(MaxCallsApi) /\ speckv_access(handle, offset_bytes, has_out)

\* The adaptive depth: prefetchers constructed with a depth of 2 to 8 (the
\* constructor and set_prefetch_depth leave the same depths), and the
\* accuracy samples fed to them one at a time
NextAcc ==
    \/ \E was_correct \in BOOLEAN :
          UNCHANGED ncalls /\ update_prediction_accuracy(was_correct)
    \/ \E depth \in MinDepth .. MaxAdaptiveDepth :
          /\ pf.accuracy_history_ = << >>
          /\ UNCHANGED ncalls /\ set_prefetch_depth(depth)

NextMM ==
    \/ \E size \in AllocSizes, t \in Tiers : Call(MaxCallsMM) /\ mm_allocate(size, t)
    \/ \E va \in VAddrs : Call(MaxCallsMM) /\ mm_deallocate(va)
    \/ \E va \in VAddrs, relock \in RelockOutcomes :
          Call(MaxCallsMM) /\ mm_promote_to_l1(va, relock)
    \/ \E va \in VAddrs : Call(MaxCallsMM) /\ mm_demote_to_l3(va)
    \/ \E va \in VAddrs : Call(MaxCallsMM) /\ mm_invalidate_page(va)
    \/ \E va \in VAddrs : Call(MaxCallsMM) /\ mm_mark_modified(va)
    \/ \E va \in VAddrs : Call(MaxCallsMM) /\ mm_update_access_tracking(va)
    \/ \E va \in VAddrs : Call(MaxCallsMM) /\ mm_is_hot_page(va)
    \/ Call(MaxCallsMM) /\ mm_reset_statistics

\* The facade, the allocator's migrations behind it, and the coherence
\* requests on the lines of the first page
NextSys ==
    \/ Call(MaxCallsSys) /\ initialize
    \/ \E size \in AllocSizes : Call(MaxCallsSys) /\ cxl_malloc(size)
    \/ \E ptr \in VAddrs : Call(MaxCallsSys) /\ cxl_free(ptr)
    \/ \E handle \in VAddrs, offset \in AccessOffsets, relock \in RelockOutcomes :
          Call(MaxCallsSys) /\ cxl_access(handle, offset, relock)
    \/ \E va \in VAddrs, relock \in RelockOutcomes :
          Call(MaxCallsSys) /\ mm_promote_to_l1(va, relock)
    \/ \E va \in VAddrs : Call(MaxCallsSys) /\ mm_demote_to_l3(va)
    \/ \E addr \in CohAddrs : request_read(addr)
    \/ \E addr \in CohAddrs : request_write(addr)
    \/ \E addr \in CohAddrs : writeback(addr)

InitCoherence ==
    /\ driver_ \in BOOLEAN
    /\ directory_ = << >>
    /\ stats_ = ZeroStats

(***************************************************************************)
(* FPGACacheEngine's codec.  int8_t values are the integers -128 .. 127,    *)
(* uint8_t values 0 .. 255; a float is the integer it equals.              *)
(***************************************************************************)
\* static_cast<uint8_t>(v)
ToU8(v) == v % 256

\* the conversion of an int to int8_t
ToI8(v) == LET b == v % 256 IN IF b >= 128 THEN b - 256 ELSE b

\* std::max(-128, std::min(127, v))
Clamp8(v) == IF v > 127 THEN 127 ELSE IF v < -128 THEN -128 ELSE v

Abs(v) == IF v < 0 THEN 0 - v ELSE v

\* compute_scale_factor is max_val / 127 for max_val > 0 and 1 otherwise:
\* the scale as a fraction [num, den]
RECURSIVE MaxAbs(_)
MaxAbs(data) ==
    IF data = << >> THEN 0
    ELSE LET m == MaxAbs(Tail(data)) IN IF Abs(Head(data)) > m THEN Abs(Head(data)) ELSE m

compute_scale_factor(data) ==
    IF MaxAbs(data) > 0 THEN [num |-> MaxAbs(data), den |-> QuantLevels]
    ELSE [num |-> 1, den |-> 1]

\* std::round(n / d) for d > 0: to the nearest integer.  Where n / d is
\* half way between two integers the float product is within an ulp of the
\* tie and lands on either side: tie_up says on which
Round(n, d, tie_up) ==
    LET a == Abs(n)
        q == a \div d
        r == a % d
        mag == IF 2 * r > d THEN q + 1
               ELSE IF 2 * r < d THEN q
               ELSE IF tie_up THEN q + 1 ELSE q
    IN IF n < 0 THEN 0 - mag ELSE mag

\* static_cast<int8_t>(float): the value if int8_t can hold it; otherwise
\* the behaviour is undefined, and the builds either keep the low byte of
\* the integer or saturate
CastOutcomes == {"low_byte", "saturate"}

FloatToI8(v, cast) ==
    IF -128 <= v /\ v <= 127 THEN v
    ELSE IF cast = "low_byte" THEN ToI8(v) ELSE Clamp8(v)

\* quantize_to_int8: scaled = data[i] / scale, then scaled * 127.0f is
\* rounded, cast to int8_t, and the int8_t is clamped
quantize_to_int8(data, scale, tie_up, cast) ==
    [i \in DOMAIN data |->
        Clamp8(FloatToI8(Round(data[i] * scale.den * QuantLevels, scale.num, tie_up), cast))]

delta_encode(data) ==
    [i \in DOMAIN data |-> IF i = 1 THEN data[1] ELSE ToI8(data[i] - data[i - 1])]

\* The loop of delta_decode from index i on; decoded holds the first i - 1
RECURSIVE delta_decode_loop(_, _, _, _)
delta_decode_loop(delta_data, i, decoded, wrap) ==
    IF i > Len(delta_data) THEN decoded
    ELSE LET sum == decoded[i - 1] + delta_data[i]
         IN delta_decode_loop(delta_data, i + 1,
                              Append(decoded, IF wrap THEN ToI8(sum) ELSE sum), wrap)

delta_decode_mut(delta_data) ==
    IF delta_data = << >> THEN delta_data
    ELSE delta_decode_loop(delta_data, 2, <<delta_data[1]>>, FALSE)

delta_decode(delta_data) ==
    IF delta_data = << >> THEN delta_data
    ELSE delta_decode_loop(delta_data, 2, <<delta_data[1]>>, TRUE)

\* The loop of run_length_encode with current_val = data[i] and count = 1
\* at index i + 1: the index at which it flushes that run, the first j with
\* data[j] != current_val or count = j - i not below cap; one past the end
\* if there is none
RunEnd(data, i, cap) ==
    LET stops == {j \in i + 1 .. Len(data) : data[j] # data[i] \/ j - i >= cap}
    IN IF stops = {} THEN Len(data) + 1
       ELSE CHOOSE j \in stops : \A k \in stops : j <= k

\* The loop of run_length_encode from the run that starts at index i on;
\* cap is the count at which a run is flushed
RECURSIVE rle_loop(_, _, _, _)
rle_loop(data, i, rle, cap) ==
    LET e == RunEnd(data, i, cap)
        flushed == rle \o <<ToU8(data[i]), ToU8(e - i)>>
    IN IF e > Len(data) THEN flushed ELSE rle_loop(data, e, flushed, cap)

run_length_encode_mut(data) ==
    IF data = << >> THEN << >> ELSE rle_loop(data, 1, << >>, 2 * MaxRun)

run_length_encode(data) ==
    IF data = << >> THEN << >> ELSE rle_loop(data, 1, << >>, MaxRun)

\* The loop of run_length_decode from byte i on
RECURSIVE rld_loop(_, _, _)
rld_loop(rle_data, i, decoded) ==
    IF i > Len(rle_data) \/ i + 1 > Len(rle_data) THEN decoded
    ELSE rld_loop(rle_data, i + 2,
                  decoded \o [j \in 1 .. rle_data[i + 1] |-> ToI8(rle_data[i])])

run_length_decode(rle_data) == rld_loop(rle_data, 1, << >>)

\* dequantize_from_int8: (data[i] / 127.0f) * scale, as a fraction
dequantize_from_int8(data, scale) ==
    [i \in DOMAIN data |->
        [num |-> data[i] * scale.num, den |-> QuantLevels * scale.den]]

\* The data in the codec: what was handed in, the stage it is at, the data
\* at that stage
Data(stage, src) == [stage |-> stage, src |-> src, cur |-> src]

Stage(stage, cur) ==
    /\ codec' = [codec EXCEPT !.stage = stage, !.cur = cur]
    /\ UNCHANGED <<cohVars, mmVars, fa, pfVars, capi, extVars, ncalls>>

\* compress, lines 52-54: the scale and the quantization
quantize(tie_up, cast) ==
    /\ codec.stage = "float"
    /\ Stage("quantized",
             quantize_to_int8(codec.cur, compute_scale_factor(codec.cur), tie_up, cast))

\* delta_encode of int8 data, and of the quantized data in compress
delta_encode_stage ==
    \/ codec.stage = "int8" /\ Stage("delta", delta_encode(codec.cur))
    \/ codec.stage = "quantized" /\ Stage("quantized_delta", delta_encode(codec.cur))

\* delta_decode of an encoder's output, and of the decoded runs in decompress
delta_decode_stage ==
    \/ codec.stage = "delta" /\ Stage("delta_decoded", delta_decode(codec.cur))
    \/ codec.stage = "compressed_rle_decoded"
          /\ Stage("compressed_delta_decoded", delta_decode(codec.cur))

\* run_length_encode of int8 data, and of the deltas in compress
run_length_encode_stage ==
    \/ codec.stage \in {"int8", "runs"} /\ Stage("rle", run_length_encode(codec.cur))
    \/ codec.stage = "quantized_delta" /\ Stage("compressed", run_length_encode(codec.cur))

\* run_length_decode of an encoder's output, and of any byte stream
run_length_decode_stage ==
    \/ codec.stage = "rle" /\ Stage("rle_decoded", run_length_decode(codec.cur))
    \/ codec.stage = "bytes" /\ Stage("bytes_decoded", run_length_decode(codec.cur))
    \/ codec.stage = "compressed"
          /\ Stage("compressed_rle_decoded", run_length_decode(codec.cur))

\* decompress, line 101: the scale is the scale_factor compress stored, that
\* of the data handed in
dequantize ==
    /\ codec.stage = "compressed_delta_decoded"
    /\ Stage("decompressed",
             dequantize_from_int8(codec.cur, compute_scale_factor(codec.src)))

\* Sequences of at most n elements of S
SeqsUpTo(S, n) == UNION {[1 .. k -> S] : k \in 0 .. n}

Run(v, n) == [i \in 1 .. n |-> v]

\* int8 data: the short sequences over the extreme and the middle values;
\* and, for the run-length coder, runs about as long as one and two pairs can
\* count, alone and followed by another value
Int8Values == {-128, -1, 0, 127}

Int8Inputs == SeqsUpTo(Int8Values, MaxCodecLen)

RunInputs ==
    {Run(v, n) \o t : v \in {-128, 0, 127},
                      n \in {MaxRun - 1, MaxRun, MaxRun + 1, 2 * MaxRun, 2 * MaxRun + 1},
                      t \in {<< >>, <<0>>, <<127>>}}

\* byte streams for the decoder: pairs with counts 0 to 2, and a last byte
\* without its pair
ByteInputs == SeqsUpTo({0, 1, 2, 255}, MaxCodecLen)

\* float data: the example of the documentation, and short sequences whose
\* values are a small and a large fraction of the maximum
FloatValues == {-200, -1, 0, 1, 2, 200}

FloatInputs == {<<1, 1, 1, 2, 2, -1>>} \cup SeqsUpTo(FloatValues, MaxCodecLen)

CodecInputs ==
    {Data("int8", d) : d \in Int8Inputs}
    \cup {Data("runs", d) : d \in RunInputs}
    \cup {Data("bytes", d) : d \in ByteInputs}
    \cup {Data("float", d) : d \in FloatInputs}

NextCodec ==
    \/ \E tie_up \in BOOLEAN, cast \in CastOutcomes : quantize(tie_up, cast)
    \/ delta_encode_stage
    \/ delta_decode_stage
    \/ run_length_encode_stage
    \/ run_length_decode_stage
    \/ dequantize

(***************************************************************************)
(* LSTMPredictor (lstm_predictor.cpp).  lstm_forward gives every component  *)
(* of the hidden state the same value and reads only the sum of the         *)
(* embedding's components, so the embedding of a token is modelled by the   *)
(* sign of that sum, the hidden state by the sign of its components, and a  *)
(* token's row of the output weights by its sum.                            *)
(***************************************************************************)
HistoryLength == 2
NumLayers == 2
MaxK == 5

\* The constructor: the weights are drawn with rand()
LSTMPredictorNew(embedding_weights_, output_weights_) ==
    [embedding_weights_ |-> embedding_weights_, output_weights_ |-> output_weights_]

\* embed_token: the token's row of the embedding weights; zeros for an id
\* outside the vocabulary
embed_token(p, token_id) ==
    IF token_id < VocabSize THEN p.embedding_weights_[token_id] ELSE 0

\* lstm_forward: cell = 0.5 * cell + 0.5 * tanh(g) with g a positive multiple
\* of the input's sum (the weights argument is not read).  cell holds the
\* cell state times 2^steps, in units of tanh(g) for an input of sum 1
lstm_forward(input, state) ==
    [cell |-> state.cell + input * 2 ^ state.steps, steps |-> state.steps + 1]

\* predict_top_k, lines 45-51: the last history_length_ tokens, or the tokens
\* after as many zeros as are missing
PadHistory(token_history) ==
    LET n == Len(token_history)
    IN IF n > HistoryLength THEN SubSeq(token_history, n - HistoryLength + 1, n)
       ELSE [i \in 1 .. HistoryLength - n |-> 0] \o token_history

\* predict_top_k, lines 59-70: each token of the history goes through every
\* layer; t and layer are the loops' counters
RECURSIVE lstm_loop(_, _, _, _, _)
lstm_loop(p, history, t, layer, state) ==
    IF t > HistoryLength THEN state
    ELSE IF layer = NumLayers THEN lstm_loop(p, history, t + 1, 0, state)
    ELSE lstm_loop(p, history, t, layer + 1,
                   lstm_forward(embed_token(p, history[t]), state))

\* hidden = 0.5 * tanh(cell): its sign
Hidden(state) == IF state.cell > 0 THEN 1 ELSE IF state.cell < 0 THEN -1 ELSE 0

\* compute_output_probs: the logit of token i is the hidden value times the
\* sum of the token's output weights, and softmax keeps the order and the
\* equalities of the logits; the confidence of a token is given by its logit
compute_output_probs(p, hidden) ==
    [i \in Tokens |-> hidden * p.output_weights_[i]]

\* std::sort with the comparator a.second > b.second: an arrangement of all
\* tokens in which no token has a larger confidence than one before it.  The
\* order of tokens of equal confidence is unspecified
SortOutcomes(probs) ==
    {s \in [1 .. VocabSize -> Tokens] :
        /\ \A i, j \in 1 .. VocabSize : i # j => s[i] # s[j]
        /\ \A i, j \in 1 .. VocabSize : i < j => ~(probs[s[j]] > probs[s[i]])}

\* LSTMPredictor::predict_top_k: the lists of (token, confidence) pairs it
\* can return
LSTMPredictor_predict_top_k(p, token_history, k) ==
    LET state == lstm_loop(p, PadHistory(token_history), 1, 0, [cell |-> 0, steps |-> 0])
        probs == compute_output_probs(p, Hidden(state))
        n == IF k < VocabSize THEN k ELSE VocabSize
    IN {[i \in 1 .. n |-> [first |-> s[i], second |-> probs[s[i]]]] :
            s \in SortOutcomes(probs)}

LstmNew(p) ==
    [predictor |-> p, called |-> FALSE, token_history |-> << >>, k |-> 0, result |-> << >>]

\* A call of predict_top_k.  It changes no member of the predictor, so a
\* run makes one call
lstm_predict(token_history, k) ==
    /\ ~lstm.called
    /\ \E result \in LSTMPredictor_predict_top_k(lstm.predictor, token_history, k) :
          lstm' = [lstm EXCEPT !.called = TRUE, !.token_history = token_history,
                               !.k = k, !.result = result]
    /\ UNCHANGED <<cohVars, mmVars, fa, pfVars, hostVars, tlbVars, thr, dmaVars, upd, ncalls>>

\* the weights rand() can give: the embeddings' sums of one sign or of both;
\* the output rows' sums all different, or two of them equal
EmbeddingWeights ==
    {[t \in Tokens |-> IF t \in S THEN 1 ELSE -1] : S \in {{0}, Tokens}}

OutputWeights ==
    {[t \in Tokens |-> t], [t \in Tokens |-> VocabSize - t],
     [t \in Tokens |-> (t + 2) % VocabSize], [t \in Tokens |-> (t + 1) \div 2]}

\* histories: a first and a second token of the vocabulary, and an id
\* outside it
Histories == SeqsUpTo({0, 1, VocabSize}, HistoryLength + 1)

NextLstm ==
    \E token_history \in Histories, k \in 0 .. MaxK : lstm_predict(token_history, k)

InitLstm ==
    lstm = LstmNew(LSTMPredictorNew([t \in Tokens |-> 1], [t \in Tokens |-> t]))

(***************************************************************************)
(* Address translation: AddressTranslationUnit (address_translation.cpp)    *)
(* and FPGACacheEngine::translate_address.  Every method holds tlb_mutex_   *)
(* from entry to return.  Addresses are scaled: a page has TlbPageSize      *)
(* bytes, the page walk keeps the address modulo VaSpace.                   *)
(***************************************************************************)
TlbSize == 2
TlbPageSize == 4
VaSpace == 16
PhysWalkBase == 64
MaxCallsTlb == 4

\* addr & ~0xFFF
TlbPage(addr) == addr - (addr % TlbPageSize)

\* addr & 0xFFF
TlbOffset(addr) == addr % TlbPageSize

\* (addr >> 12) % tlb_size_
TlbIndex(addr) == (addr \div TlbPageSize) % TlbSize

AtuNew ==
    [tlb_ |-> [i \in 0 .. TlbSize - 1 |->
                  [virtual_page |-> 0, physical_page |-> 0, valid |-> FALSE]],
     stats_ |-> [hits |-> 0, misses |-> 0]]

page_walk(virtual_addr) == PhysWalkBase + (virtual_addr % VaSpace)

\* AddressTranslationUnit::translate: the unit after the call and the
\* address returned
translate_call(a, virtual_addr) ==
    LET virtual_page == TlbPage(virtual_addr)
        page_offset == TlbOffset(virtual_addr)
        tlb_index == TlbIndex(virtual_page)
        entry == a.tlb_[tlb_index]
    IN IF entry.valid /\ entry.virtual_page = virtual_page
       THEN [atu |-> [a EXCEPT !.stats_.hits = @ + 1],
             ret |-> entry.physical_page + page_offset]
       ELSE LET physical_page == page_walk(virtual_addr)
            IN [atu |-> [a EXCEPT !.stats_.misses = @ + 1,
                                  !.tlb_[tlb_index] =
                                      [virtual_page |-> virtual_page,
                                       physical_page |-> TlbPage(physical_page),
                                       valid |-> TRUE]],
                ret |-> physical_page + page_offset]

atu_invalidate_call(a, virtual_addr) ==
    LET virtual_page == TlbPage(virtual_addr)
        tlb_index == TlbIndex(virtual_page)
    IN IF a.tlb_[tlb_index].virtual_page = virtual_page
       THEN [a EXCEPT !.tlb_[tlb_index].valid = FALSE]
       ELSE a

invalidate_all_call(a) ==
    [a EXCEPT !.tlb_ = [i \in DOMAIN a.tlb_ |-> [a.tlb_[i] EXCEPT !.valid = FALSE]]]

atu_reset_statistics_call(a) == [a EXCEPT !.stats_ = [hits |-> 0, misses |-> 0]]

AtuCommit(a) ==
    /\ atu' = a
    /\ UNCHANGED <<cohVars, mmVars, fa, pfVars, hostVars, lstm, engine_tlb, thr, dmaVars, upd>>

translate(virtual_addr) == AtuCommit(translate_call(atu, virtual_addr).atu)
atu_invalidate(virtual_addr) == AtuCommit(atu_invalidate_call(atu, virtual_addr))
invalidate_all == AtuCommit(invalidate_all_call(atu))
atu_reset_statistics == AtuCommit(atu_reset_statistics_call(atu))

EngineTlbNew ==
    [i \in 0 .. TlbSize - 1 |-> [virtual_addr |-> 0, physical_addr |-> 0, valid |-> FALSE]]

\* FPGACacheEngine::translate_address: the TLB after the call and the
\* address returned
translate_address_call(tlb, virtual_addr) ==
    LET tlb_index == TlbIndex(virtual_addr)
        entry == tlb[tlb_index]
    IN IF entry.valid /\ entry.virtual_addr = TlbPage(virtual_addr)
       THEN [tlb_ |-> tlb, ret |-> entry.physical_addr + TlbOffset(virtual_addr)]
       ELSE LET physical_addr == PhysWalkBase + (virtual_addr % VaSpace)
            IN [tlb_ |-> [tlb EXCEPT ![tlb_index] =
                                      [virtual_addr |-> TlbPage(virtual_addr),
                                       physical_addr |-> TlbPage(physical_addr),
                                       valid |-> TRUE]],
                ret |-> physical_addr]

translate_address(virtual_addr) ==
    /\ engine_tlb' = translate_address_call(engine_tlb, virtual_addr).tlb_
    /\ UNCHANGED <<cohVars, mmVars, fa, pfVars, hostVars, lstm, atu, thr, dmaVars, upd>>

\* virtual addresses: every offset of the pages the page walk tells apart,
\* and of one page beyond them
TlbAddrs == 0 .. VaSpace + TlbPageSize - 1

NextTlb ==
    \/ \E va \in TlbAddrs : Call(MaxCallsTlb) /\ translate(va)
    \/ \E va \in TlbAddrs : Call(MaxCallsTlb) /\ atu_invalidate(va)
    \/ Call(MaxCallsTlb) /\ invalidate_all
    \/ Call(MaxCallsTlb) /\ atu_reset_statistics
    \/ \E va \in TlbAddrs : Call(MaxCallsTlb) /\ translate_address(va)

InitTlb == atu = AtuNew /\ engine_tlb = EngineTlbNew

(***************************************************************************)
(* The statistics counters with the methods running in several threads.     *)
(* A method of the coherence manager holds directory_mutex_ from entry to   *)
(* return, one of the allocator page_table_mutex_; the method's effect on   *)
(* the directory or the page table is taken where it enters, and its        *)
(* accesses to the counters follow one at a time.  A counter is incremented *)
(* by a read and a write.                                                   *)
(***************************************************************************)
MaxCallsStat == 4

Components == {"coherence", "allocator", "prefetcher"}

\* The counters that are written with stats_mutex_ held: those of
\* CoherenceManager::update_statistics, those of the block of
\* update_access_tracking, and those of the prefetcher
GuardedCounters(comp) ==
    CASE comp = "coherence" ->
            {"total_reads", "total_writes", "directory_hits", "directory_misses",
             "coherence_ops"}
      [] comp = "allocator" -> {"l1_hits", "l2_hits", "l3_accesses"}
      [] comp = "prefetcher" -> PfStatKeys

\* The counters in the order in which a method writes them
CounterOrder(comp) ==
    CASE comp = "coherence" ->
            <<"writebacks_performed", "coherence_ops", "invalidations_sent",
              "total_reads", "total_writes", "directory_hits", "directory_misses">>
      [] comp = "allocator" ->
            <<"migrations_l1_to_l3", "migrations_l3_to_l1", "l1_hits", "l2_hits",
              "l3_accesses", "l1_misses", "l2_misses">>
      [] comp = "prefetcher" ->
            <<"total_prefetches", "successful_prefetches", "mispredictions">>

\* The methods that hold a mutex of their component from entry to return:
\* directory_mutex_, page_table_mutex_
HasOuterMutex(comp) == comp \in {"coherence", "allocator"}

StatsOf(comp) ==
    CASE comp = "coherence" -> stats_
      [] comp = "allocator" -> mm.stats_
      [] comp = "prefetcher" -> pf.stats_

SetStats(comp, st) ==
    /\ stats_' = IF comp = "coherence" THEN st ELSE stats_
    /\ mm' = IF comp = "allocator" THEN [mm EXCEPT !.stats_ = st] ELSE mm
    /\ pf' = IF comp = "prefetcher" THEN [pf EXCEPT !.stats_ = st] ELSE pf

Idle ==
    [comp |-> "none", op |-> "none", pending |-> << >>, phase |-> "idle", tmp |-> 0,
     holds_stats |-> FALSE]

\* A thread inside a method that takes the counters from before to after
Running(comp, before, after) ==
    [comp |-> comp, op |-> "call",
     pending |-> [i \in DOMAIN SelectSeq(CounterOrder(comp), LAMBDA k : after[k] # before[k]) |->
                     LET k == SelectSeq(CounterOrder(comp), LAMBDA c : after[c] # before[c])[i]
                     IN [counter |-> k, amount |-> after[k] - before[k]]],
     phase |-> "run", tmp |-> 0, holds_stats |-> FALSE]

OuterBusy(comp) ==
    HasOuterMutex(comp) /\ \E u \in Threads : thr[u].comp = comp /\ thr[u].op = "call"

StatsMutexHeld(comp) == \E u \in Threads : thr[u].comp = comp /\ thr[u].holds_stats

StatFrame ==
    UNCHANGED <<driver_, fa, inflight, hostVars, lstm, tlbVars, dmaVars, upd, stuck>>

\* A thread enters a method of the coherence manager; r is what the method
\* hands back
coh_begin(t, r) ==
    /\ thr[t].phase = "idle"
    /\ ~OuterBusy("coherence")
    /\ directory_' = r.dir
    /\ thr' = [thr EXCEPT ![t] = Running("coherence", stats_, r.st)]
    /\ UNCHANGED <<stats_, mm, pf>>
    /\ StatFrame

stat_request_write(t, addr) == coh_begin(t, request_write_call(Enter, addr))
stat_invalidate(t, addr) == coh_begin(t, invalidate_call(Enter, addr))
stat_writeback(t, addr) == coh_begin(t, writeback_call(Enter, addr))
stat_flush_all(t, order) == coh_begin(t, flush_all_call(Enter, order))

\* A thread enters a method of the allocator that returns
mm_begin(t, r) ==
    /\ thr[t].phase = "idle"
    /\ ~OuterBusy("allocator")
    /\ r.end = "return"
    /\ MMBounded(r.mm)
    /\ mm' = [r.mm EXCEPT !.stats_ = mm.stats_]
    /\ thr' = [thr EXCEPT ![t] = Running("allocator", mm.stats_, r.mm.stats_)]
    /\ UNCHANGED <<directory_, stats_, pf>>
    /\ StatFrame

stat_mm_allocate(t, size_bytes, tier) == mm_begin(t, mm_allocate_call(mm, size_bytes, tier))
stat_mm_promote_to_l1(t, va, relock) == mm_begin(t, mm_promote_to_l1_call(mm, va, relock))
stat_mm_demote_to_l3(t, va) == mm_begin(t, mm_demote_to_l3_call(mm, va))
stat_mm_update_access_tracking(t, va) ==
    mm_begin(t, mm_update_access_tracking_call(mm, va))

\* A thread enters handle_misprediction, which holds no mutex but
\* stats_mutex_
stat_handle_misprediction(t, actual_token, predicted_tokens) ==
    LET p == handle_misprediction_call(pf, actual_token, predicted_tokens)
    IN /\ thr[t].phase = "idle"
       /\ pf' = [p EXCEPT !.stats_ = pf.stats_]
       /\ thr' = [thr EXCEPT ![t] = Running("prefetcher", pf.stats_, p.stats_)]
       /\ UNCHANGED <<directory_, stats_, mm>>
       /\ StatFrame

\* std::lock_guard on stats_mutex_ before a counter that is written under it
stat_lock(t) ==
    /\ thr[t].phase = "run" /\ thr[t].pending # << >> /\ ~thr[t].holds_stats
    /\ Head(thr[t].pending).counter \in GuardedCounters(thr[t].comp)
    /\ ~StatsMutexHeld(thr[t].comp)
    /\ thr' = [thr EXCEPT ![t].holds_stats = TRUE]
    /\ UNCHANGED <<directory_, stats_, mm, pf, ncalls>>
    /\ StatFrame

\* The read of counter++ or counter += n
stat_read(t) ==
    /\ thr[t].phase = "run" /\ thr[t].pending # << >>
    /\ Head(thr[t].pending).counter \in GuardedCounters(thr[t].comp) => thr[t].holds_stats
    /\ thr' = [thr EXCEPT ![t].phase = "loaded",
                          ![t].tmp = StatsOf(thr[t].comp)[Head(thr[t].pending).counter]]
    /\ UNCHANGED <<directory_, stats_, mm, pf, ncalls>>
    /\ StatFrame

\* The write of counter++ or counter += n; the lock_guard, if there is one,
\* ends
stat_write(t) ==
    /\ thr[t].phase = "loaded"
    /\ LET a == Head(thr[t].pending)
       IN SetStats(thr[t].comp,
                   [StatsOf(thr[t].comp) EXCEPT ![a.counter] = thr[t].tmp + a.amount])
    /\ thr' = [thr EXCEPT ![t].phase = "run", ![t].pending = Tail(@),
                          ![t].holds_stats = FALSE]
    /\ UNCHANGED <<directory_, ncalls>>
    /\ StatFrame

\* The method returns
stat_end(t) ==
    /\ thr[t].phase = "run" /\ thr[t].pending = << >>
    /\ thr' = [thr EXCEPT ![t] = Idle]
    /\ UNCHANGED <<directory_, stats_, mm, pf, ncalls>>
    /\ StatFrame

\* reset_statistics and get_statistics of a component: the lock_guard on
\* stats_mutex_
stat_stats_begin(t, comp, op) ==
    /\ thr[t].phase = "idle"
    /\ ~StatsMutexHeld(comp)
    /\ thr' = [thr EXCEPT ![t] = [Idle EXCEPT !.comp = comp, !.op = op, !.phase = "locked",
                                              !.holds_stats = TRUE]]
    /\ UNCHANGED <<directory_, stats_, mm, pf>>
    /\ StatFrame

\* reset_statistics: every counter is zeroed, and the method returns
stat_reset_statistics(t) ==
    /\ thr[t].op = "reset"
    /\ SetStats(thr[t].comp, [k \in DOMAIN StatsOf(thr[t].comp) |-> 0])
    /\ thr' = [thr EXCEPT ![t] = Idle]
    /\ UNCHANGED <<directory_, ncalls>>
    /\ StatFrame

\* get_statistics: every counter is read, and the method returns
stat_get_statistics(t) ==
    /\ thr[t].op = "get"
    /\ thr' = [thr EXCEPT ![t] = Idle]
    /\ UNCHANGED <<directory_, stats_, mm, pf, ncalls>>
    /\ StatFrame

InitThr == thr = [t \in Threads |-> Idle]

\* the lines and the pages the methods are called on, and a prediction that
\* is right and one that is wrong
StatLines == {VirtualBase + i * CacheLineSize : i \in 0 .. NumLines - 1}
StatPages == {VirtualBase + i * PageSize : i \in 0 .. MaxVirtualPages - 1}
StatSizes == {PageSize, 2 * PageSize}

NextStat ==
    \/ \E t \in Threads, addr \in StatLines : Call(MaxCallsStat) /\ stat_request_write(t, addr)
    \/ \E t \in Threads, addr \in StatLines : Call(MaxCallsStat) /\ stat_invalidate(t, addr)
    \/ \E t \in Threads, addr \in StatLines : Call(MaxCallsStat) /\ stat_writeback(t, addr)
    \/ \E t \in Threads, order \in VisitOrders(DOMAIN directory_) :
          Call(MaxCallsStat) /\ stat_flush_all(t, order)
    \/ \E t \in Threads, size \in StatSizes, tier \in Tiers :
          Call(MaxCallsStat) /\ stat_mm_allocate(t, size, tier)
    \/ \E t \in Threads, va \in StatPages, relock \in RelockOutcomes :
          Call(MaxCallsStat) /\ stat_mm_promote_to_l1(t, va, relock)
    \/ \E t \in Threads, va \in StatPages : Call(MaxCallsStat) /\ stat_mm_demote_to_l3(t, va)
    \/ \E t \in Threads, va \in StatPages :
          Call(MaxCallsStat) /\ stat_mm_update_access_tracking(t, va)
    \/ \E t \in Threads, actual_token \in {0, 1} :
          Call(MaxCallsStat) /\ stat_handle_misprediction(t, actual_token, <<0>>)
    \/ \E t \in Threads, comp \in Components, op \in {"reset", "get"} :
          Call(MaxCallsStat) /\ stat_stats_begin(t, comp, op)
    \/ \E t \in Threads : stat_lock(t)
    \/ \E t \in Threads : stat_read(t)
    \/ \E t \in Threads : stat_write(t)
    \/ \E t \in Threads : stat_end(t)
    \/ \E t \in Threads : stat_reset_statistics(t)
    \/ \E t \in Threads : stat_get_statistics(t)

(***************************************************************************)
(* The kernel module (speckv_kernel_module.c) with its device, SpeckvDriver *)
(* over it, and speckv_access step by step: one step up to the submission   *)
(* of the fetch, one step for each poll.  An ioctl is one step.             *)
(***************************************************************************)
DmaRingSize == 3
MaxDmaCount == 4
MaxCallsDma == 4

\* The module after it is loaded (mmio_base is mapped, or the load fails),
\* and the device: ring_written counts the descriptors written into the
\* ring, fpga_done those the device has carried out, complete_reg is
\* SPECKV_REG_DMA_COMPLETE
KmodNew ==
    [mmio_base |-> TRUE, dma_ring_wr_ptr |-> 0, dma_ring_rd_ptr |-> 0, dma_pending |-> 0,
     ring_written |-> 0, fpga_done |-> 0, complete_reg |-> 0]

\* what can fail inside an ioctl whatever its arguments are
Faults == {"none", "copy_batch", "kmalloc", "copy_descs", "copy_to_user"}

\* The loop of handle_dma_batch from descriptor i (counted from 0) on: the
\* module, and the number of descriptors written when the loop ended
RECURSIVE dma_ring_loop(_, _, _)
dma_ring_loop(k, i, count) ==
    IF i >= count THEN [k |-> k, written |-> i]
    ELSE LET next_wr == (k.dma_ring_wr_ptr + 1) % DmaRingSize
         IN IF next_wr = k.dma_ring_rd_ptr THEN [k |-> k, written |-> i]
            ELSE dma_ring_loop([k EXCEPT !.dma_ring_wr_ptr = next_wr,
                                         !.dma_pending = @ + 1,
                                         !.ring_written = @ + 1], i + 1, count)

\* handle_dma_batch for a batch of count descriptors: the module, the value
\* returned ("OK" is 0) and the number of descriptors written
handle_dma_batch(k, count, fault) ==
    IF fault = "copy_batch" THEN [k |-> k, ret |-> "EFAULT", written |-> 0]
    ELSE IF count > MaxDmaCount THEN [k |-> k, ret |-> "EINVAL", written |-> 0]
    ELSE IF fault = "kmalloc" THEN [k |-> k, ret |-> "ENOMEM", written |-> 0]
    ELSE IF fault = "copy_descs" THEN [k |-> k, ret |-> "EFAULT", written |-> 0]
    ELSE IF ~k.mmio_base THEN [k |-> k, ret |-> "ENODEV", written |-> 0]
    ELSE LET r == dma_ring_loop(k, 0, count)
         IN [k |-> r.k, ret |-> "OK", written |-> r.written]

\* handle_poll_done: the module, the value returned and the count stored
handle_poll_done(k, fault) ==
    IF ~k.mmio_base THEN [k |-> k, ret |-> "ENODEV", done |-> 0]
    ELSE LET done == k.complete_reg
             k1 == IF done > 0
                   THEN [k EXCEPT !.dma_pending = @ - done, !.complete_reg = 0]
                   ELSE k
         IN IF fault = "copy_to_user" THEN [k |-> k1, ret |-> "EFAULT", done |-> 0]
            ELSE [k |-> k1, ret |-> "OK", done |-> done]

\* SpeckvDriver::submit_dma_batch of n descriptors: 0, or -1 from ioctl
submit_dma_batch(k, n, fault) ==
    IF n = 0 THEN [k |-> k, ret |-> 0, written |-> 0]
    ELSE LET r == handle_dma_batch(k, n, fault)
         IN [k |-> r.k, ret |-> IF r.ret = "OK" THEN 0 ELSE -1, written |-> r.written]

\* SpeckvDriver::poll_complete: the count of completions, or -1 from ioctl
poll_complete(k, fault) ==
    LET r == handle_poll_done(k, fault)
    IN [k |-> r.k, ret |-> IF r.ret = "OK" THEN r.done ELSE -1]

\* No speckv_access call yet
AccNew ==
    [pc |-> "idle", called |-> FALSE, fetched |-> FALSE, virt_page_id |-> 0,
     submit_ret |-> 0, written |-> 0, poll_ret |-> 0, status |-> SPECKV_OK, out |-> 0]

DmaFrame == UNCHANGED <<cohVars, mmVars, fa, pfVars, codec, lstm, tlbVars, thr, upd>>

\* speckv_access returns
access_return(c, k, a, status, out) ==
    /\ capi' = c
    /\ kmod' = k
    /\ acc' = [a EXCEPT !.pc = "idle", !.called = TRUE, !.status = status, !.out = out]

\* speckv_access down to the submission of the fetch in sync_fetch_page
access_begin(handle, offset_bytes, has_out, fault) ==
    /\ acc.pc = "idle"
    /\ LET a == capi.g_allocator
           page_idx == offset_bytes \div HostPageSize
           page_offset == offset_bytes % HostPageSize
           call == [AccNew EXCEPT !.called = TRUE]
       IN IF ~capi.g_initialized \/ ~has_out
          THEN access_return(capi, kmod, call, SPECKV_ERR_INVAL, 0)
          ELSE IF handle \notin DOMAIN a.allocs_ \/ page_idx >= Len(a.allocs_[handle].pages)
          THEN access_return(capi, kmod, call, SPECKV_ERR_GENERAL, 0)
          ELSE LET page == a.allocs_[handle].pages[page_idx + 1]
                   out == page.phys_page_id + page_offset
               IN IF is_in_l1_or_l2(a, page.virt_page_id)
                     \/ page.virt_page_id \notin DOMAIN a.page_table_
                  THEN access_return(capi, kmod, call, SPECKV_OK, out)
                  ELSE LET r == submit_dma_batch(kmod, 1, fault)
                       IN /\ kmod' = r.k
                          /\ acc' = [call EXCEPT !.pc = "poll", !.fetched = TRUE,
                                                 !.virt_page_id = page.virt_page_id,
                                                 !.submit_ret = r.ret,
                                                 !.written = r.written, !.out = out]
                          /\ capi' = capi
    /\ DmaFrame

\* One turn of the loop while (driver_->poll_complete() == 0); when the loop
\* ends the L2 bit is set and speckv_access returns
access_poll(fault) ==
    /\ acc.pc = "poll"
    /\ LET r == poll_complete(kmod, fault)
       IN IF r.ret = 0
          THEN /\ kmod' = r.k
               /\ UNCHANGED <<capi, acc>>
          ELSE access_return([capi EXCEPT !.g_allocator =
                                             sync_fetch_page(@, acc.virt_page_id)],
                             r.k, [acc EXCEPT !.poll_ret = r.ret], SPECKV_OK, acc.out)
    /\ UNCHANGED ncalls
    /\ DmaFrame

\* ioctl(SPECKV_IOCTL_DMA_BATCH) and ioctl(SPECKV_IOCTL_POLL_DONE) of any
\* process that has the device open
dma_batch(count, fault) ==
    /\ kmod' = handle_dma_batch(kmod, count, fault).k
    /\ UNCHANGED <<capi, acc>>
    /\ DmaFrame

poll_done(fault) ==
    /\ kmod' = handle_poll_done(kmod, fault).k
    /\ UNCHANGED <<capi, acc>>
    /\ DmaFrame

\* The device carries out a descriptor of the ring and counts it in
\* SPECKV_REG_DMA_COMPLETE
fpga_complete ==
    /\ kmod.fpga_done < kmod.ring_written
    /\ kmod' = [kmod EXCEPT !.fpga_done = @ + 1, !.complete_reg = @ + 1]
    /\ UNCHANGED <<capi, acc, ncalls>>
    /\ DmaFrame

InitDma == kmod = KmodNew /\ acc = AccNew

\* batches of no descriptor, of as many as the ring takes, of more, and of
\* more than the module accepts
DmaCounts == 0 .. MaxDmaCount + 1

NextDma ==
    \/ acc.pc = "idle" /\ Call(MaxCallsDma) /\ speckv_init(TRUE)
    \/ \E bytes \in {HostPageSize, 2 * HostPageSize} :
          acc.pc = "idle" /\ Call(MaxCallsDma) /\ speckv_alloc(bytes, TRUE)
    \/ \E handle \in 1 .. 2, offset_bytes \in HostOffsets, has_out \in BOOLEAN,
          fault \in Faults :
          Call(MaxCallsDma) /\ access_begin(handle, offset_bytes, has_out, fault)
    \/ \E fault \in Faults : access_poll(fault)
    \/ \E count \in DmaCounts, fault \in Faults :
          Call(MaxCallsDma) /\ dma_batch(count, fault)
    \/ \E fault \in Faults : Call(MaxCallsDma) /\ poll_done(fault)
    \/ fpga_complete

(***************************************************************************)
(* update_prediction_accuracy called by several threads.  The method takes  *)
(* no mutex: its accesses to accuracy_history_ and to the atomic            *)
(* adaptive_depth_ are steps of their own, and the threads' steps            *)
(* interleave.                                                               *)
(***************************************************************************)
MaxCallsUpd == 3

UpdFrame ==
    UNCHANGED <<cohVars, mmVars, fa, inflight, hostVars, lstm, tlbVars, thr, dmaVars>>

UpdIdle == [pc |-> "idle"]

\* accuracy_history_.push_back(was_correct ? 1.0f : 0.0f)
upd_push(t, was_correct) ==
    /\ upd[t].pc = "idle"
    /\ pf' = [pf EXCEPT !.accuracy_history_ = Append(@, IF was_correct THEN 1 ELSE 0)]
    /\ upd' = [upd EXCEPT ![t] = [pc |-> "pushed"]]
    /\ UpdFrame

\* if (accuracy_history_.size() > accuracy_window_size_) erase(begin())
upd_trim(t) ==
    /\ upd[t].pc = "pushed"
    /\ pf' = [pf EXCEPT !.accuracy_history_ =
                            IF Len(@) > AccWindowSize THEN Tail(@) ELSE @]
    /\ upd' = [upd EXCEPT ![t] = [pc |-> "trimmed"]]
    /\ UNCHANGED ncalls
    /\ UpdFrame

\* if (accuracy_history_.size() >= 10): the sum of the last ten samples
upd_average(t) ==
    /\ upd[t].pc = "trimmed"
    /\ LET h == pf.accuracy_history_
       IN upd' = [upd EXCEPT ![t] =
                     IF Len(h) >= RecentCount
                     THEN [pc |-> "averaged",
                           recent |-> SumSeq(SubSeq(h, Len(h) - RecentCount + 1, Len(h)))]
                     ELSE UpdIdle]
    /\ UNCHANGED <<pf, ncalls>>
    /\ UpdFrame

\* the conditions of the if and of the else if, with adaptive_depth_.load()
upd_load(t) ==
    /\ upd[t].pc = "averaged"
    /\ LET d == pf.adaptive_depth_
       IN upd' = [upd EXCEPT ![t] =
                     IF Above95(upd[t].recent) /\ d < MaxAdaptiveDepth
                     THEN [pc |-> "increment"]
                     ELSE IF Below85(upd[t].recent) /\ d > MinDepth
                     THEN [pc |-> "decrement"]
                     ELSE UpdIdle]
    /\ UNCHANGED <<pf, ncalls>>
    /\ UpdFrame

\* adaptive_depth_++ and adaptive_depth_--
upd_add(t) ==
    /\ upd[t].pc \in {"increment", "decrement"}
    /\ pf' = [pf EXCEPT !.adaptive_depth_ =
                            IF upd[t].pc = "increment" THEN @ + 1 ELSE @ - 1]
    /\ upd' = [upd EXCEPT ![t] = UpdIdle]
    /\ UNCHANGED ncalls
    /\ UpdFrame

NextUpd ==
    \/ \E t \in Threads, was_correct \in BOOLEAN :
          Call(MaxCallsUpd) /\ upd_push(t, was_correct)
    \/ \E t \in Threads : upd_trim(t)
    \/ \E t \in Threads : upd_average(t)
    \/ \E t \in Threads : upd_load(t)
    \/ \E t \in Threads : upd_add(t)

InitUpd == upd = [t \in Threads |-> UpdIdle]

InitExt == InitLstm /\ InitTlb /\ InitThr /\ InitDma /\ InitUpd

InitCodec == codec = Data("none", << >>)

Init ==
    InitCoherence /\ InitMM /\ InitFacade /\ InitPrefetcher /\ InitCapi /\ InitCodec
    /\ InitExt

Next ==
    \/ \E addr \in CohAddrs : request_read(addr)
    \/ \E addr \in CohAddrs : request_write(addr)
    \/ \E addr \in CohAddrs : invalidate(addr)
    \/ \E addr \in CohAddrs : writeback(addr)
    \/ flush_all
    \/ \E addr \in CohAddrs : promote_to_l1(addr)
    \/ \E addr \in CohAddrs : demote_to_l3(addr)
    \/ \E addr \in CohAddrs, t \in Tiers : update_tier(addr, t)
    \/ \E addrs \in Batches : batch_invalidate(addrs)
    \/ \E data \in Batches : batch_writeback(data)
    \/ reset_statistics

Spec == Init /\ [][Next]_vars

\* The tiered allocator alone
SpecMM == Init /\ [][NextMM]_vars

\* The facade with its allocator and the coherence manager
SpecSys == Init /\ [][NextSys]_vars

\* The prefetcher with its allocator
SpecPF == Init /\ [][NextPF]_vars

\* The adaptive depth of the prefetcher
SpecAcc == Init /\ [][NextAcc]_vars

\* The codec, on each of the inputs
InitCodecInputs ==
    InitCoherence /\ InitMM /\ InitFacade /\ InitPrefetcher /\ InitCapi
    /\ codec \in CodecInputs
    /\ InitExt

SpecCodec == InitCodecInputs /\ [][NextCodec]_vars

\* The predictor, with each of the weights
InitLstmInputs ==
    InitCoherence /\ InitMM /\ InitFacade /\ InitPrefetcher /\ InitCapi /\ InitCodec
    /\ lstm \in {LstmNew(LSTMPredictorNew(e, w)) : e \in EmbeddingWeights, w \in OutputWeights}
    /\ InitTlb
    /\ InitThr
    /\ InitDma
    /\ InitUpd

SpecLstm == InitLstmInputs /\ [][NextLstm]_vars

\* The translation unit and the engine's TLB
SpecTlb == Init /\ [][NextTlb]_vars

\* The statistics counters, with the methods in several threads
SpecStat == Init /\ [][NextStat]_vars

\* Prefetchers constructed with a depth of 2 to 8 that one thread has fed
\* nine equal samples, one short of the first average
InitUpdInputs ==
    /\ InitCoherence /\ InitMM /\ InitFacade /\ InitCapi /\ InitCodec
    /\ InitLstm /\ InitTlb /\ InitThr /\ InitDma /\ InitUpd
    /\ inflight = [t \in Threads |-> NoCall]
    /\ \E depth \in MinDepth .. MaxAdaptiveDepth, sample \in {0, 1} :
          pf = [PfNew(depth) EXCEPT
                   !.accuracy_history_ = [i \in 1 .. RecentCount - 1 |-> sample]]

\* Allocations of one page and of one page more than the physical window
\* of a handle (handle << 20 is 256 pages of 4096 bytes), and their release
AllocatorSizes == {HostPageSize, HostPhysShift + HostPageSize}

NextAlloc ==
    \/ Call(MaxCallsApi) /\ speckv_init(TRUE)
    \/ \E bytes \in AllocatorSizes : Call(MaxCallsApi) /\ speckv_alloc(bytes, TRUE)
    \/ \E handle \in HostHandles : Call(MaxCallsApi) /\ speckv_free(handle)

SpecAlloc == Init /\ [][NextAlloc]_vars

\* update_prediction_accuracy called by the threads at the same time
SpecUpd == InitUpdInputs /\ [][NextUpd]_vars

\* The kernel module and speckv_access over it
SpecDma == Init /\ [][NextDma]_vars

\* The same where the loop of sync_fetch_page keeps polling and the device
\* carries out every descriptor of the ring
SpecDmaLive ==
    SpecDma /\ WF_vars(access_poll("none")) /\ WF_vars(fpga_complete)

\* The C API
SpecApi == Init /\ [][NextApi]_vars

\* The prefetcher called by several threads
SpecPFC == Init /\ [][NextPFC]_vars

\* The four MESI requests alone
NextMESI ==
    \/ \E addr \in CohAddrs : request_read(addr)
    \/ \E addr \in CohAddrs : request_write(addr)
    \/ \E addr \in CohAddrs : invalidate(addr)
    \/ \E addr \in CohAddrs : writeback(addr)

SpecMESI == Init /\ [][NextMESI]_vars

(***************************************************************************)
(* Claims                                                                  *)
(***************************************************************************)
Lines == {align_to_cache_line(addr) : addr \in CohAddrs}

\* Some transport call of the method call r failed
TransportFailed(r) == \E i \in DOMAIN r.sent : ~r.sent[i].ok

\* The method call r got op through the transport for line a, as its i-th call
SentAt(r, i, op, a) ==
    /\ i \in DOMAIN r.sent
    /\ r.sent[i].op = op /\ r.sent[i].addr = a /\ r.sent[i].ok

\* C1: with a transport that succeeds, each of request_read, request_write,
\* invalidate and writeback, called in any reachable state on any address,
\* succeeds and leaves the line in the state the transition table gives:
\* read: Invalid -> Shared, other states unchanged; write: -> Modified;
\* invalidate: -> Invalid; writeback: Modified -> Shared, others unchanged.
C1_TransitionTable ==
    driver_ =>
        \A addr \in CohAddrs :
            LET s == get_state(directory_, addr)
                rd == request_read_call(Enter, addr)
                wr == request_write_call(Enter, addr)
                inv == invalidate_call(Enter, addr)
                wb == writeback_call(Enter, addr)
            IN /\ rd.ok /\ get_state(rd.dir, addr) = (IF s = "INVALID" THEN "SHARED" ELSE s)
               /\ wr.ok /\ get_state(wr.dir, addr) = "MODIFIED"
               /\ inv.ok /\ get_state(inv.dir, addr) = "INVALID"
               /\ wb.ok /\ get_state(wb.dir, addr) = (IF s = "MODIFIED" THEN "SHARED" ELSE s)

\* C1 witness: a line has gone through write, writeback and invalidate: it is
\* Invalid in tier L3 (only a writeback puts a line there) after a read miss.
C1_Witness ==
    /\ driver_
    /\ \E a \in DOMAIN directory_ : directory_[a] = [state |-> "INVALID", tier |-> "L3"]
    /\ stats_.total_reads >= 1 /\ stats_.total_writes >= 1
    /\ stats_.writebacks_performed >= 1 /\ stats_.invalidations_sent >= 2

\* C2 (as claimed): whenever a transport call of request_read, request_write,
\* invalidate, writeback, promote_to_l1, demote_to_l3, batch_invalidate or
\* batch_writeback fails, the method returns false and the directory is
\* exactly as before the call.
C2_FailureLeavesDirectory ==
    LET Unchanged(r) == TransportFailed(r) => (~r.ok /\ r.dir = directory_)
    IN /\ \A addr \in CohAddrs :
            /\ Unchanged(request_read_call(Enter, addr))
            /\ Unchanged(request_write_call(Enter, addr))
            /\ Unchanged(invalidate_call(Enter, addr))
            /\ Unchanged(writeback_call(Enter, addr))
            /\ Unchanged(promote_to_l1_call(Enter, addr))
            /\ Unchanged(demote_to_l3_call(Enter, addr))
       /\ \A addrs \in Batches :
            /\ Unchanged(batch_invalidate_call(Enter, addrs))
            /\ Unchanged(batch_writeback_call(Enter, addrs))

\* C3 (as claimed): invalidate and batch_invalidate take a Modified line to
\* Invalid only after sending a transport writeback for that line, followed
\* by the transport invalidate.
C3_WritebackBeforeInvalidate ==
    LET Ordered(r, a) ==
            (get_state(directory_, a) = "MODIFIED" /\ get_state(r.dir, a) = "INVALID")
                => \E i, j \in DOMAIN r.sent :
                       i < j /\ SentAt(r, i, "WRITEBACK", a) /\ SentAt(r, j, "INVALIDATE", a)
    IN /\ \A addr \in CohAddrs : Ordered(invalidate_call(Enter, addr), align_to_cache_line(addr))
       /\ \A addrs \in Batches :
            \A a \in Lines : Ordered(batch_invalidate_call(Enter, addrs), a)

(***************************************************************************)
(* Claims about the tiered allocator                                       *)
(***************************************************************************)
PagesIn(m, tier) == {pa \in DOMAIN m.page_table_ : m.page_table_[pa].tier = tier}

Range(f) == {f[i] : i \in DOMAIN f}

\* Page pa is Modified in L1 in m and is in L3 in m2
LeftL1Modified(m, m2, pa) ==
    /\ pa \in PagesIn(m, "L1") /\ m.page_table_[pa].state = "MODIFIED"
    /\ pa \in PagesIn(m2, "L3")

\* C4 (as claimed): whenever demote_to_l3, or the eviction inside
\* promote_to_l1, moves a Modified page from L1 to L3, the call has written
\* the page back before, so the page is not left Modified in L3.
C4_WritebackBeforeDemotion ==
    LET WrittenBack(r) ==
            \A pa \in DOMAIN mm.page_table_ :
                LeftL1Modified(mm, r.mm, pa) =>
                    /\ pa \in Range(r.writebacks)
                    /\ r.mm.page_table_[pa].state # "MODIFIED"
    IN \A va \in VAddrs :
          /\ WrittenBack(mm_demote_to_l3_call(mm, va))
          /\ \A relock \in RelockOutcomes : WrittenBack(mm_promote_to_l1_call(mm, va, relock))

\* C5 (as claimed): in every tier the pages of that tier, times the page
\* size, stay within the tier's capacity.
C5_TierWithinCapacity ==
    \A tier \in Tiers :
        Cardinality(PagesIn(mm, tier)) * PageSize <= TierSizeBytes(mm, tier)

\* C6 (as claimed): the L1 LRU list holds exactly the page-aligned addresses
\* of the pages whose tier is L1, each once.
C6_LruListIsL1 ==
    /\ Range(mm.l1_lru_list_) = PagesIn(mm, "L1")
    /\ Cardinality(Range(mm.l1_lru_list_)) = Len(mm.l1_lru_list_)

\* C7 (as claimed): promote_to_l1 of a page outside L1, called with L1 full,
\* returns, and afterwards L1 holds the promoted page and all former L1 pages
\* but one victim.
C7_PromoteEvictsOne ==
    \A va \in VAddrs, relock \in RelockOutcomes :
        LET r == mm_promote_to_l1_call(mm, va, relock)
            before == PagesIn(mm, "L1")
        IN (/\ get_page(mm, va) /\ PageAlign(va) \notin before
            /\ (Cardinality(before) + 1) * PageSize > mm.l1_size_bytes_
            /\ before # {})
           => /\ r.end = "return"
              /\ \E victim \in before :
                    PagesIn(r.mm, "L1") = (before \ {victim}) \cup {PageAlign(va)}

\* No address of the size bytes from base is known to the manager m
RangeFreed(m, base, size) ==
    \A va \in base .. (base + size - 1) :
        /\ translate_virtual_to_physical(m, va) = 0
        /\ \A t \in Tiers : ~is_in_cache(m, va, t)

\* C8 (as claimed): after deallocate(base), and after the facade's
\* cxl_free(ptr), no page of the allocation is left: every address of the
\* freed range translates to 0 and is in no tier.
C8_DeallocateRemovesAllPages ==
    \A size \in AllocSizes :
        /\ \A tier \in Tiers :
              LET a == mm_allocate_call(mm, size, tier)
                  d == mm_deallocate_call(a.mm, a.ret)
              IN MMBounded(a.mm) => RangeFreed(d.mm, a.ret, size)
        /\ LET a == cxl_malloc_call(fa, mm, size)
               d == cxl_free_call(a.fa, a.mm, a.ret)
           IN (fa.initialized_ /\ MMBounded(a.mm)) => RangeFreed(d.mm, a.ret, size)

\* The global lock order (spec section 5); the allocator's statistics mutex
\* is taken under the page-table mutex.
LockRank ==
    [handle_map |-> 1, allocation |-> 2, page_table |-> 3, mm_stats |-> 4,
     facade_stats |-> 5]

\* C9 (as claimed): every lock a call acquires is strictly later in the lock
\* order than every lock its thread holds then (so never one it holds), and no
\* thread is blocked for ever on a mutex.
C9_LockOrder ==
    LET Ordered(r) ==
            \A i \in DOMAIN r.acq :
                \A h \in r.acq[i].held : LockRank[h] < LockRank[r.acq[i].lock]
    IN /\ stuck = {}
       /\ \A va \in VAddrs :
            /\ Ordered(mm_deallocate_call(mm, va))
            /\ Ordered(mm_demote_to_l3_call(mm, va))
            /\ Ordered(mm_update_access_tracking_call(mm, va))
            /\ Ordered(mm_is_hot_page_call(mm, va))
            /\ Ordered(mm_mark_modified_call(mm, va))
            /\ Ordered(mm_invalidate_page_call(mm, va))
            /\ \A relock \in RelockOutcomes : Ordered(mm_promote_to_l1_call(mm, va, relock))
       /\ \A size \in AllocSizes :
            /\ Ordered(cxl_malloc_call(fa, mm, size))
            /\ \A tier \in Tiers : Ordered(mm_allocate_call(mm, size, tier))
       /\ \A ptr \in VAddrs :
            /\ Ordered(cxl_free_call(fa, mm, ptr))
            /\ \A offset \in AccessOffsets, relock \in RelockOutcomes :
                  Ordered(cxl_access_call(fa, mm, ptr, offset, relock))

\* C10 (as claimed): a line with a non-Invalid directory entry that lies in a
\* page of the allocator has, in the directory, the tier of that page.
C10_DirectoryTierIsPageTier ==
    \A a \in DOMAIN directory_ :
        (directory_[a].state # "INVALID" /\ get_page(mm, a))
            => directory_[a].tier = mm.page_table_[PageAlign(a)].tier

(***************************************************************************)
(* Claims about the coherence statistics                                   *)
(***************************************************************************)
\* Every call of a method other than request_read, request_write and
\* reset_statistics that can be made in the current state, as what it returns;
\* CohCalls adds the calls of request_read and request_write
CohOtherCalls ==
    {invalidate_call(Enter, addr) : addr \in CohAddrs}
        \cup {writeback_call(Enter, addr) : addr \in CohAddrs}
        \cup {flush_all_call(Enter, order) : order \in VisitOrders(DOMAIN directory_)}
        \cup {promote_to_l1_call(Enter, addr) : addr \in CohAddrs}
        \cup {demote_to_l3_call(Enter, addr) : addr \in CohAddrs}
        \cup {update_tier_call(Enter, addr, t) : addr \in CohAddrs, t \in Tiers}
        \cup {batch_invalidate_call(Enter, addrs) : addrs \in Batches}
        \cup {batch_writeback_call(Enter, data) : data \in Batches}

CohCalls ==
    {request_read_call(Enter, addr) : addr \in CohAddrs}
        \cup {request_write_call(Enter, addr) : addr \in CohAddrs}
        \cup CohOtherCalls

\* C11: in every reachable state directory_hits + directory_misses equals
\* total_reads + total_writes, and every call other than reset_statistics
\* leaves every counter at least as large as it was.
C11_StatsBalancedMonotonic ==
    /\ stats_.directory_hits + stats_.directory_misses
          = stats_.total_reads + stats_.total_writes
    /\ \A r \in CohCalls : \A k \in StatKeys : r.st[k] >= stats_[k]

\* C11: hits and misses were both counted, for reads and for writes, and the
\* other counters have moved too.
C11_Witness ==
    /\ stats_.directory_hits >= 2 /\ stats_.directory_misses >= 1
    /\ stats_.total_reads >= 1 /\ stats_.total_writes >= 2
    /\ stats_.coherence_ops >= 1 /\ stats_.writebacks_performed >= 1

\* The manager in the middle of a run of calls, after the call that returned r
After(r) == [dir |-> r.dir, st |-> r.st, sent |-> r.sent]

\* C12 (as claimed): total_reads counts the request_read calls and
\* total_writes the request_write calls: a request_read adds one to
\* total_reads only, a request_write one to total_writes only, and no other
\* operation but reset_statistics changes either.
C12_ReadsWritesCountCalls ==
    /\ \A addr \in CohAddrs :
          LET rd == request_read_call(Enter, addr)
              wr == request_write_call(Enter, addr)
          IN /\ rd.st.total_reads = stats_.total_reads + 1
             /\ rd.st.total_writes = stats_.total_writes
             /\ wr.st.total_writes = stats_.total_writes + 1
             /\ wr.st.total_reads = stats_.total_reads
    /\ \A r \in CohOtherCalls :
          /\ r.st.total_reads = stats_.total_reads
          /\ r.st.total_writes = stats_.total_writes

\* C13 (as claimed): read, write, writeback, invalidate in that order on a
\* line with no entry, with a working transport and all counters at zero,
\* leave reads = 1, writes = 1, writebacks = 1, invalidations_sent = 1.
C13_CycleStatistics ==
    \A addr \in CohAddrs :
        LET rd == request_read_call(Enter, addr)
            wr == request_write_call(After(rd), addr)
            wb == writeback_call(After(wr), addr)
            inv == invalidate_call(After(wb), addr)
        IN (driver_ /\ stats_ = ZeroStats /\ ~get_entry(directory_, align_to_cache_line(addr)))
            => /\ inv.st.total_reads = 1
               /\ inv.st.total_writes = 1
               /\ inv.st.writebacks_performed = 1
               /\ inv.st.invalidations_sent = 1

ModifiedLines(dir) == {a \in DOMAIN dir : dir[a].state = "MODIFIED"}

\* C14: when flush_all returns no entry is Modified: every entry that was
\* Modified is Shared in L3, every other entry is as it was, no entry was
\* created, and writebacks_performed has grown by the number of entries that
\* were Modified.
C14_FlushAll ==
    \A order \in VisitOrders(DOMAIN directory_) :
        LET r == flush_all_call(Enter, order)
        IN /\ r.ok
           /\ DOMAIN r.dir = DOMAIN directory_
           /\ ModifiedLines(r.dir) = {}
           /\ \A a \in DOMAIN directory_ :
                 r.dir[a] = IF a \in ModifiedLines(directory_)
                            THEN [state |-> "SHARED", tier |-> "L3"]
                            ELSE directory_[a]
           /\ r.st.writebacks_performed
                 = stats_.writebacks_performed + Cardinality(ModifiedLines(directory_))

\* C14: flush_all can be called, and so is called, with one line Modified and
\* another one Shared in L1, after an earlier writeback.
C14_Witness ==
    /\ \E a, b \in DOMAIN directory_ :
          /\ directory_[a].state = "MODIFIED"
          /\ directory_[b] = [state |-> "SHARED", tier |-> "L1"]
    /\ stats_.writebacks_performed >= 1
    /\ \E order \in VisitOrders(DOMAIN directory_) :
          StatsBounded(flush_all_call(Enter, order).st)

\* invalidate, or writeback, called on each element of addrs from the i-th on
RECURSIVE EachInvalidate(_, _, _)
EachInvalidate(c, addrs, i) ==
    IF i > Len(addrs) THEN c
    ELSE EachInvalidate(After(invalidate_call(c, addrs[i])), addrs, i + 1)

RECURSIVE EachWriteback(_, _, _)
EachWriteback(c, data, i) ==
    IF i > Len(data) THEN c
    ELSE EachWriteback(After(writeback_call(c, data[i])), data, i + 1)

\* C15 (as claimed): batch_invalidate leaves the directory and the statistics
\* as invalidate called on each listed line in order does, and batch_writeback
\* as writeback called on each pair in order does.
C15_BatchIsSequence ==
    \A addrs \in Batches :
        LET bi == batch_invalidate_call(Enter, addrs)
            si == EachInvalidate(Enter, addrs, 1)
            bw == batch_writeback_call(Enter, addrs)
            sw == EachWriteback(Enter, addrs, 1)
        IN /\ bi.dir = si.dir /\ bi.st = si.st
           /\ bw.dir = sw.dir /\ bw.st = sw.st

\* The call that returned r sent nothing and changed nothing
NoOp(r) == r.sent = << >> /\ r.dir = directory_ /\ r.st = stats_

\* C16 (as claimed): invalidate of a line whose state is Invalid (no entry, or
\* an entry in state Invalid) and writeback of a line that is not Modified
\* send nothing through the transport and change no entry and no counter.
C16_NoOps ==
    \A addr \in CohAddrs :
        /\ get_state(directory_, addr) = "INVALID" => NoOp(invalidate_call(Enter, addr))
        /\ get_state(directory_, addr) # "MODIFIED" => NoOp(writeback_call(Enter, addr))

(***************************************************************************)
(* More claims about the tiered allocator and the facade                   *)
(***************************************************************************)
\* C17 (as claimed): promote_to_l1(va) returns true and changes nothing when
\* the page is in L1 already, returns false when the page is unknown, and
\* otherwise, when it returns, returns true with the page in L1.
C17_PromoteResult ==
    \A va \in VAddrs, relock \in RelockOutcomes :
        LET r == mm_promote_to_l1_call(mm, va, relock)
            pa == PageAlign(va)
        IN IF ~get_page(mm, va)
           THEN r.end = "return" /\ r.ret = FALSE
           ELSE IF mm.page_table_[pa].tier = "L1"
           THEN r.end = "return" /\ r.ret = TRUE /\ r.mm = mm
           ELSE r.end = "return" => (r.ret = TRUE /\ r.mm.page_table_[pa].tier = "L1")

\* C18 (as claimed): an allocation of any size, 0 included, has at least one
\* page, at its base, and the next allocation returns another base; the same
\* for the handles of the facade.
C18_AllocationsDistinct ==
    \A s1, s2 \in AllocSizes :
        /\ \A t1, t2 \in Tiers :
              LET a1 == mm_allocate_call(mm, s1, t1)
                  a2 == mm_allocate_call(a1.mm, s2, t2)
              IN MMBounded(a2.mm) =>
                    /\ get_page(a1.mm, a1.ret)
                    /\ a1.ret # a2.ret
        /\ LET a1 == cxl_malloc_call(fa, mm, s1)
               a2 == cxl_malloc_call(a1.fa, a1.mm, s2)
           IN (fa.initialized_ /\ MMBounded(a2.mm)) =>
                 /\ get_page(a1.mm, a1.ret)
                 /\ a1.ret # a2.ret

\* size_bytes, rounded up to whole pages, exceeds what is left of every tier
FitsNowhere(m, size_bytes) ==
    \A tier \in Tiers :
        (Cardinality(PagesIn(m, tier)) + (size_bytes + PageSize - 1) \div PageSize) * PageSize
            > TierSizeBytes(m, tier)

\* C19 (as claimed): an allocation that fits in no tier fails: allocate
\* returns 0 and cxl_malloc the null pointer, and no page and no handle is
\* created.
C19_ExhaustionReported ==
    \A size \in AllocSizes :
        FitsNowhere(mm, size) =>
            /\ \A tier \in Tiers :
                  LET a == mm_allocate_call(mm, size, tier)
                  IN a.ret = 0 /\ a.mm.page_table_ = mm.page_table_
            /\ LET a == cxl_malloc_call(fa, mm, size)
               IN fa.initialized_ =>
                     /\ a.ret = 0
                     /\ a.mm.page_table_ = mm.page_table_
                     /\ a.fa.handle_map_ = fa.handle_map_

(***************************************************************************)
(* Claims about the prefetcher                                             *)
(***************************************************************************)
Cached(m, va) == is_in_cache(m, va, "L1") \/ is_in_cache(m, va, "L2")

\* C20: prefetch returns and enqueues no request for an address in a page
\* that is in L1 or L2 when it is called; the requests it returns are the
\* requests it enqueued, in order; and it returns at most depth requests for
\* a positive depth, at most adaptive_depth for depth 0.
C20_PrefetchSkipsCached ==
    \A ranking \in Rankings, layer_id \in 0 .. MaxLayer, depth \in 0 .. MaxDepth :
        LET r == prefetch_call(pf, mm, ranking, layer_id, depth)
            all == pf.outstanding_prefetches_ \o r.issued
            kept == Len(r.pf.outstanding_prefetches_)
        IN /\ \A i \in DOMAIN r.ret : ~Cached(mm, r.ret[i].virtual_addr)
           /\ r.issued = r.ret
           /\ r.pf.outstanding_prefetches_ = SubSeq(all, Len(all) - kept + 1, Len(all))
           /\ Len(r.pf.outstanding_prefetches_) >= Len(pf.outstanding_prefetches_)
           /\ Len(r.ret) <= (IF depth > 0 THEN depth ELSE pf.adaptive_depth_)

\* C20: prefetch can be called, and so is called, where it skips a candidate
\* in a cached page and returns another one.
C20_Witness ==
    /\ ncalls < MaxCallsPF /\ "page_table" \notin stuck
    /\ \E ranking \in Rankings, layer_id \in 0 .. MaxLayer :
          LET r == prefetch_call(pf, mm, ranking, layer_id, 0)
          IN /\ Len(r.ret) >= 1
             /\ \E i \in 1 .. pf.adaptive_depth_ :
                   i <= VocabSize /\ Cached(mm, compute_kv_address(0, layer_id, i))

\* C21: the outstanding-prefetch queue never holds more than its limit, also
\* with prefetch running in several threads, and every change of the queue
\* is one enqueue: the request goes to the back, and the oldest request is
\* dropped if and only if the queue was full.
C21_FifoBounded ==
    /\ [](Len(pf.outstanding_prefetches_) <= QueueLimit)
    /\ [][LET q == pf.outstanding_prefetches_
              q1 == pf'.outstanding_prefetches_
          IN q1 # q =>
                /\ Len(q1) >= 1
                /\ q1 = IF Len(q) < QueueLimit THEN Append(q, q1[Len(q1)])
                        ELSE Append(Tail(q), q1[Len(q1)])]_vars

\* C21: both threads are inside prefetch, each has enqueued, the queue is
\* full and the first request of one thread has been dropped from it.
C21_Witness ==
    /\ Len(pf.outstanding_prefetches_) = QueueLimit
    /\ \A t \in Threads : inflight[t].pc = "loop" /\ Len(inflight[t].out) >= 1
    /\ \E t \in Threads : ~Member(inflight[t].out[1], pf.outstanding_prefetches_)

\* C22: for a prefetcher constructed with a depth of 2 to 8, after any
\* sequence of update_prediction_accuracy calls the adaptive depth is 2 to 8
\* and the accuracy window holds no more samples than its size.
C22_DepthAndWindowBounded ==
    /\ MinDepth <= pf.adaptive_depth_ /\ pf.adaptive_depth_ <= MaxAdaptiveDepth
    /\ Len(pf.accuracy_history_) <= AccWindowSize

\* C22: the window is full, and the depth has been driven to a limit by it
C22_Witness ==
    /\ Len(pf.accuracy_history_) = AccWindowSize
    /\ pf.adaptive_depth_ \in {MinDepth, MaxAdaptiveDepth}
    /\ pf.adaptive_depth_ # pf.prefetch_depth_

RECURSIVE UpdateTimes(_, _, _)
UpdateTimes(p, was_correct, n) ==
    IF n = 0 THEN p
    ELSE UpdateTimes(update_prediction_accuracy_call(p, was_correct), was_correct, n - 1)

\* C23: from a fresh prefetcher of depth 4, twenty consecutive
\* update_prediction_accuracy(_, true) calls leave the adaptive depth at 5.
C23_TwentyCorrect ==
    (pf.accuracy_history_ = << >> /\ pf.adaptive_depth_ = DefaultDepth)
        => UpdateTimes(pf, TRUE, 20).adaptive_depth_ = DefaultDepth + 1

\* C24: handle_misprediction adds one to mispredictions if and only if the
\* actual token is not in the predicted list, and changes nothing else: not
\* the other counters, the queue, the depths, the accuracy window, or the
\* allocator with the tier of every page.
C24_MispredictionOnlyCounts ==
    [][\A actual_token \in Tokens, predicted_tokens \in TokenLists :
          handle_misprediction(actual_token, predicted_tokens) =>
             /\ pf' = [pf EXCEPT !.stats_.mispredictions =
                          IF Member(actual_token, predicted_tokens) THEN @ ELSE @ + 1]
             /\ mm' = mm]_vars

\* C24: a misprediction has been counted while requests are outstanding and
\* a page is in a tier
C24_Witness ==
    /\ pf.stats_.mispredictions >= 1
    /\ pf.outstanding_prefetches_ # << >>
    /\ DOMAIN mm.page_table_ # {}

(***************************************************************************)
(* Claims about handles                                                    *)
(***************************************************************************)
Handles == VAddrs \cup {0}

\* Part of C25: cxl_access with a handle fails right after cxl_free of it
AccessAfterFreeFails ==
    \A ptr \in DOMAIN fa.handle_map_, offset \in AccessOffsets, relock \in RelockOutcomes :
        LET a == cxl_free_call(fa, mm, ptr)
        IN cxl_access_call(a.fa, a.mm, ptr, offset, relock).ret = 0

\* Part of C25: cxl_free and cxl_access with a handle that is not live
\* change neither the facade nor the allocator
UnknownHandleChangesNothing ==
    \A ptr \in Handles \ DOMAIN fa.handle_map_ :
        /\ LET a == cxl_free_call(fa, mm, ptr) IN a.fa = fa /\ a.mm = mm
        /\ \A offset \in AccessOffsets, relock \in RelockOutcomes :
              LET c == cxl_access_call(fa, mm, ptr, offset, relock)
              IN c.fa = fa /\ c.mm = mm /\ c.ret = 0

\* C25: once cxl_free(handle) has returned, cxl_access with that handle
\* fails, right away and after a later cxl_malloc; and cxl_free and
\* cxl_access with a handle that is not live change no allocation, page or
\* counter.
C25_FreedHandleStaysDead ==
    /\ AccessAfterFreeFails
    /\ UnknownHandleChangesNothing
    /\ \A ptr \in DOMAIN fa.handle_map_, size_bytes \in AllocSizes,
          offset \in AccessOffsets, relock \in RelockOutcomes :
          LET a == cxl_free_call(fa, mm, ptr)
              b == cxl_malloc_call(a.fa, a.mm, size_bytes)
          IN cxl_access_call(b.fa, b.mm, ptr, offset, relock).ret = 0

\* The tier cxl_access is to leave a page of tier t in, by C26
TierAfterAccess(t, hot) == IF t = "L2" /\ ~hot THEN "L2" ELSE "L1"

\* Part of C26: what cxl_access leaves when it returns
AccessEffectOnReturn ==
    \A handle \in DOMAIN fa.handle_map_, offset \in AccessOffsets, relock \in RelockOutcomes :
        LET va == fa.handle_map_[handle].virtual_addr + offset
            pa == PageAlign(va)
            c == cxl_access_call(fa, mm, handle, offset, relock)
        IN (fa.initialized_ /\ get_page(mm, va) /\ c.end = "return") =>
              /\ c.ret = va
              /\ c.mm.page_table_[pa].access_count = mm.page_table_[pa].access_count + 1
              /\ c.mm.page_table_[pa].tier =
                    TierAfterAccess(mm.page_table_[pa].tier,
                                    mm.page_table_[pa].access_count + 1 > HotThreshold)

\* C26: cxl_access on a live handle returns base + offset, adds one to the
\* access_count of the page of that address, and leaves the page in L1 if it
\* was in L1 or L3, or in L2 and hot, and in L2 if it was in L2 and not hot.
C26_AccessPromotes ==
    /\ AccessEffectOnReturn
    /\ \A handle \in DOMAIN fa.handle_map_, offset \in AccessOffsets, relock \in RelockOutcomes :
          LET va == fa.handle_map_[handle].virtual_addr + offset
              c == cxl_access_call(fa, mm, handle, offset, relock)
          IN (fa.initialized_ /\ get_page(mm, va)) => c.end = "return" /\ c.ret = va

(***************************************************************************)
(* Claims about the C API                                                  *)
(***************************************************************************)
\* The calls of the API other than speckv_init and speckv_finalize
ApiCalls(c) ==
    {speckv_alloc_call(c, bytes, has_out) : bytes \in HostSizes, has_out \in BOOLEAN}
    \cup {speckv_free_call(c, handle) : handle \in HostHandles}
    \cup UNION {{speckv_access_call(c, handle, offset_bytes, has_out) :
                    handle \in HostHandles, offset_bytes \in HostOffsets} :
                has_out \in BOOLEAN}

\* alloc, access and free do their work in the session c
SessionWorks(c) ==
    \A bytes \in HostSizes \ {0} :
        LET a == speckv_alloc_call(c, bytes, TRUE)
            x == speckv_access_call(a.capi, a.out, bytes - 1, TRUE)
            f == speckv_free_call(x.capi, a.out)
        IN /\ a.status = SPECKV_OK /\ a.out \notin DOMAIN c.g_allocator.allocs_
           /\ a.out \in DOMAIN a.capi.g_allocator.allocs_
           /\ x.status = SPECKV_OK /\ x.out # 0
           /\ f.status = SPECKV_OK /\ a.out \notin DOMAIN f.capi.g_allocator.allocs_

\* C27: while the API is not initialized (before a successful speckv_init,
\* after speckv_finalize) every call fails and creates no handle, as do the
\* calls of a facade that was not initialized; speckv_init on an initialized
\* API fails and leaves the session as it is, and it works; after
\* speckv_finalize, speckv_init succeeds and alloc, access and free work.
C27_InitializedGuard ==
    /\ ~capi.g_initialized =>
          /\ ~capi.has_allocator
          /\ \A r \in ApiCalls(capi) : r.status # SPECKV_OK /\ r.out = 0 /\ r.capi = capi
    /\ ~fa.initialized_ =>
          /\ \A size_bytes \in AllocSizes :
                LET r == cxl_malloc_call(fa, mm, size_bytes)
                IN r.ret = 0 /\ r.fa = fa /\ r.mm = mm
          /\ \A ptr \in Handles, offset \in AccessOffsets, relock \in RelockOutcomes :
                LET r == cxl_access_call(fa, mm, ptr, offset, relock)
                IN r.ret = 0 /\ r.fa = fa /\ r.mm = mm
    /\ capi.g_initialized =>
          /\ \A dev_opens \in BOOLEAN :
                LET r == speckv_init_call(capi, dev_opens)
                IN r.status # SPECKV_OK /\ r.capi = capi
          /\ SessionWorks(capi)
    /\ LET f == speckv_finalize_call(capi)
           i == speckv_init_call(f.capi, TRUE)
       IN /\ ~f.capi.g_initialized
          /\ i.status = SPECKV_OK /\ i.capi.g_initialized
          /\ SessionWorks(i.capi)

\* C27: a session with a live handle whose page was fetched by an access
C27_Witness ==
    /\ capi.g_initialized
    /\ \E h \in DOMAIN capi.g_allocator.allocs_ :
          \E k \in DOMAIN capi.g_allocator.allocs_[h].pages :
             is_in_l1_or_l2(capi.g_allocator, capi.g_allocator.allocs_[h].pages[k].virt_page_id)
    /\ capi.g_allocator.next_handle_ > 2

(***************************************************************************)
(* Claims about the codec                                                  *)
(***************************************************************************)
\* What the first k (value, count) pairs of a byte stream stand for
RECURSIVE ExpandPairs(_, _)
ExpandPairs(rle, k) ==
    IF k = 0 THEN << >>
    ELSE ExpandPairs(rle, k - 1) \o Run(ToI8(rle[2 * k - 1]), rle[2 * k])

\* C28: run_length_decode(run_length_encode(s)) = s for int8 data s, the
\* empty sequence and runs longer than 255 included; the encoder's output is
\* (value, count) byte pairs with 1 <= count <= 255 that stand for s, a run
\* being cut only where the value changes or the count is 255; the decoder
\* ignores a last byte without its pair.
C28_RunLengthRoundTrip ==
    /\ codec.stage = "rle" =>
          LET n == Len(codec.cur) \div 2
          IN /\ Len(codec.cur) = 2 * n
             /\ \A i \in DOMAIN codec.cur : codec.cur[i] \in 0 .. 255
             /\ \A k \in 1 .. n : 1 <= codec.cur[2 * k] /\ codec.cur[2 * k] <= MaxRun
             /\ \A k \in 1 .. n - 1 :
                   codec.cur[2 * k - 1] = codec.cur[2 * k + 1] => codec.cur[2 * k] = MaxRun
             /\ ExpandPairs(codec.cur, n) = codec.src
    /\ codec.stage = "rle_decoded" => codec.cur = codec.src
    /\ codec.stage = "bytes_decoded" =>
          codec.cur = ExpandPairs(codec.src, Len(codec.src) \div 2)

\* C28: a run of more than 255 equal values has been encoded and decoded
C28_Witness ==
    /\ codec.stage = "rle_decoded"
    /\ Len(codec.src) > MaxRun
    /\ \A i \in 1 .. MaxRun + 1 : codec.src[i] = codec.src[1]

\* C29: delta_decode(delta_encode(s)) = s for int8 data s, the differences
\* and the sums being taken modulo 2^8, also where neighbours differ by more
\* than 127.
C29_DeltaRoundTrip ==
    /\ codec.stage = "delta" =>
          /\ Len(codec.cur) = Len(codec.src)
          /\ \A i \in DOMAIN codec.cur :
                /\ -128 <= codec.cur[i] /\ codec.cur[i] <= 127
                /\ (codec.cur[i] - (codec.src[i] - (IF i = 1 THEN 0 ELSE codec.src[i - 1])))
                      % 256 = 0
    /\ codec.stage = "delta_decoded" => codec.cur = codec.src

\* C29: data whose neighbours differ by more than 127 has been encoded and
\* decoded
C29_Witness ==
    /\ codec.stage = "delta_decoded"
    /\ \E i \in 2 .. Len(codec.src) : Abs(codec.src[i] - codec.src[i - 1]) > 127

\* clamp(round((x / s) * 127), -128, 127) for each x of the data, s being the
\* scale factor of the data
Saturated(data, tie_up) ==
    LET scale == compute_scale_factor(data)
    IN [i \in DOMAIN data |->
           Clamp8(Round(data[i] * scale.den * QuantLevels, scale.num, tie_up))]

\* C30: the quantized byte of every value x is round((x / s) * 127) clamped
\* to -128 .. 127, never that integer modulo 2^8; and the run-length stream
\* compress makes of 1, 1, 1, 2, 2, -1 has 6 bytes.
C30_QuantizationSaturates ==
    /\ codec.stage = "quantized" =>
          \E tie_up \in BOOLEAN : codec.cur = Saturated(codec.src, tie_up)
    /\ (codec.stage = "compressed" /\ codec.src = <<1, 1, 1, 2, 2, -1>>) =>
          Len(codec.cur) = 6

\* C31: decompress(compress(x)) has the length of x, and each of its
\* elements differs from the element of x at its place by at most
\* max|x| / 127.
C31_CompressRoundTrip ==
    codec.stage = "decompressed" =>
        /\ Len(codec.cur) = Len(codec.src)
        /\ \A i \in DOMAIN codec.cur :
              Abs(codec.src[i] * codec.cur[i].den - codec.cur[i].num) * QuantLevels
                  <= MaxAbs(codec.src) * codec.cur[i].den

\* The first n tokens of the vocabulary in the order of confidence
\* descending, tokens of equal confidence in the order of their ids ascending
RECURSIVE RankedByConfidence(_, _, _)
RankedByConfidence(probs, rest, n) ==
    IF n = 0 \/ rest = {} THEN << >>
    ELSE LET best == CHOOSE t \in rest :
                        \A u \in rest : \/ probs[t] > probs[u]
                                        \/ probs[t] = probs[u] /\ t <= u
         IN <<best>> \o RankedByConfidence(probs, rest \ {best}, n - 1)

\* C32: predict_top_k(h, k) returns min(k, vocab_size) pairs with distinct
\* token ids: the first min(k, vocab_size) tokens of the vocabulary ordered
\* by confidence descending, tokens of equal confidence by id ascending.
C32_TopKOrdered ==
    lstm.called =>
        LET n == IF lstm.k < VocabSize THEN lstm.k ELSE VocabSize
            probs == compute_output_probs(lstm.predictor,
                        Hidden(lstm_loop(lstm.predictor, PadHistory(lstm.token_history),
                                         1, 0, [cell |-> 0, steps |-> 0])))
        IN /\ Len(lstm.result) = n
           /\ \A i, j \in 1 .. n : i # j => lstm.result[i].first # lstm.result[j].first
           /\ [i \in 1 .. n |-> lstm.result[i].first] = RankedByConfidence(probs, Tokens, n)
           /\ \A i \in 1 .. n : lstm.result[i].second = probs[lstm.result[i].first]

\* C33: translate(va) returns the physical page of the page walk of va plus
\* the offset of va in its page, on a miss and on the hit that follows it:
\* two translations of va with nothing between them return the same address.
\* The same for translate_address of the engine.
C33_HitEqualsMiss ==
    \A va \in TlbAddrs :
        LET first == translate_call(atu, va)
            second == translate_call(first.atu, va)
            e_first == translate_address_call(engine_tlb, va)
            e_second == translate_address_call(e_first.tlb_, va)
            expected == TlbPage(PhysWalkBase + (va % VaSpace)) + TlbOffset(va)
        IN /\ first.ret = expected
           /\ second.ret = first.ret
           /\ e_first.ret = expected
           /\ e_second.ret = e_first.ret

\* A thread is between the read and the write of a counter without
\* stats_mutex_ while another thread is inside reset_statistics or
\* get_statistics of the component
Unsynchronized(t, u) ==
    /\ t # u
    /\ thr[t].phase = "loaded" /\ ~thr[t].holds_stats
    /\ thr[u].comp = thr[t].comp /\ thr[u].op \in {"reset", "get"}

\* C34: every read and write of a statistics counter of the coherence
\* manager, the allocator and the prefetcher happens with the component's
\* stats_mutex_ held; no two threads access a counter unsynchronized; and
\* no increment is lost: the write of an increment stores the counter's
\* value of that moment plus the amount.
C34_CountersSynchronized ==
    /\ [](\A t \in Threads : thr[t].phase = "loaded" => thr[t].holds_stats)
    /\ [](\A t, u \in Threads : ~Unsynchronized(t, u))
    /\ [][\A t \in Threads :
            thr[t].phase = "loaded" /\ thr'[t].phase # "loaded" =>
                LET a == Head(thr[t].pending)
                IN StatsOf(thr[t].comp)'[a.counter]
                      = StatsOf(thr[t].comp)[a.counter] + a.amount]_vars

\* C35: when the submission of the fetch or the poll for its completion
\* fails, speckv_access returns a failure, and the page is marked resident
\* in L2 only after its fetch was submitted, written into the ring and
\* completed.
C35_FetchFailureSurfaces ==
    (acc.pc = "idle" /\ acc.called /\ acc.fetched) =>
        /\ (acc.submit_ret < 0 \/ acc.poll_ret < 0) => acc.status # SPECKV_OK
        /\ (acc.virt_page_id \in DOMAIN capi.g_allocator.page_table_
              /\ is_in_l1_or_l2(capi.g_allocator, acc.virt_page_id)) =>
                 (acc.submit_ret = 0 /\ acc.written = 1 /\ acc.poll_ret > 0)

\* C36: speckv_access returns: the wait for the fetch ends, also when the
\* submission failed or queued nothing.
C36_AccessReturns == (acc.pc = "poll") ~> (acc.pc = "idle")

\* C37: with the threads calling update_prediction_accuracy at the same
\* time, in every interleaving the adaptive depth stays within 2 to 8, and
\* the accuracy window holds no more samples than its size whenever no call
\* is in progress.
C37_ConcurrentDepthAndWindowBounded ==
    /\ MinDepth <= pf.adaptive_depth_ /\ pf.adaptive_depth_ <= MaxAdaptiveDepth
    /\ (\A t \in Threads : upd[t].pc = "idle") =>
           Len(pf.accuracy_history_) <= AccWindowSize

\* The page addresses of the allocation of handle ptr
AllocationPages(f, ptr) ==
    LET h == f.handle_map_[ptr]
    IN {h.virtual_addr + i * PageSize :
           i \in 0 .. ((h.size_bytes + PageSize - 1) \div PageSize) - 1}

\* C38: cxl_access(handle, offset) of a live handle, for offsets inside the
\* allocation and at or beyond its size, leaves every page of every other
\* live allocation as it was: its access count, its tier, its place in the
\* L1 LRU list.
C38_AccessStaysInAllocation ==
    \A handle \in DOMAIN fa.handle_map_, offset \in AccessOffsets,
       relock \in RelockOutcomes :
        LET r == cxl_access_call(fa, mm, handle, offset, relock)
        IN \A other \in DOMAIN fa.handle_map_ \ {handle} :
              \A va \in AllocationPages(fa, other) \cap DOMAIN mm.page_table_ :
                  /\ va \in DOMAIN r.mm.page_table_
                  /\ r.mm.page_table_[va] = mm.page_table_[va]
                  /\ Member(va, r.mm.l1_lru_list_) = Member(va, mm.l1_lru_list_)

\* The live pages of allocator a: handle and index in the allocation
LivePages(a) ==
    UNION {{<<h, k>> : k \in DOMAIN a.allocs_[h].pages} : h \in DOMAIN a.allocs_}

\* C40: any two distinct live pages of the allocator, of one handle or of
\* two, have distinct virt_page_id and distinct phys_page_id; no live handle
\* is 0, every live handle is below the next handle to be returned, and
\* the next handle never goes down.
C40_PageIdsDistinct ==
    /\ [](LET a == capi.g_allocator
          IN /\ \A p, q \in LivePages(a) :
                    p # q =>
                       LET pp == a.allocs_[p[1]].pages[p[2]]
                           qq == a.allocs_[q[1]].pages[q[2]]
                       IN /\ pp.virt_page_id # qq.virt_page_id
                          /\ pp.phys_page_id # qq.phys_page_id
             /\ \A h \in DOMAIN a.allocs_ : h # 0 /\ h < a.next_handle_)
    /\ [][capi.g_allocator.next_handle_' >= capi.g_allocator.next_handle_]_vars

\* C39: in every state of the ring, a DMA batch submission returns success
\* only if every descriptor of the batch was written into the ring, and a
\* batch of more than the accepted count is rejected and leaves the ring as
\* it was.
C39_BatchSuccessMeansQueued ==
    \A count \in DmaCounts, fault \in Faults :
        LET r == submit_dma_batch(kmod, count, fault)
        IN /\ (r.ret = 0 => r.written = count)
           /\ (count > MaxDmaCount => (r.ret < 0 /\ r.k = kmod))
====
